---- MODULE Spec2Model ----
(***************************************************************************)
(* Model of the evolutionary search engine of archai                       *)
(* (src/archai/nlp/nas/evolution.py, class Evolution).                     *)
(*                                                                         *)
(* The state is the Evolution object's fields together with the local      *)
(* variables of search(); every statement group of search() is one action. *)
(* The collaborators that live outside evolution.py (Converter, the model  *)
(* formula, the measurement functions, find_pareto_points) are modelled    *)
(* from their contract.  The OrderedDictLogger of                          *)
(* src/archai/common/ordered_dict_logger.py is modelled next to it, with   *)
(* its own specification SpecLogger.                                       *)
(***************************************************************************)
EXTENDS Integers, Sequences, FiniteSets, TLC

VARIABLES
    pc,                       \* position in __init__ / search()
    evaluator,                \* which external evaluator the run talks to
    population_size, parent_size, mutation_size, crossover_size, n_iter,
    param_constraint_lower, param_constraint_upper, latency_constraint_upper,
    profile,                  \* max_* / min_* fields set by _profile
    pareto,                   \* self.pareto
    p_inds,                   \* p_inds of the last _update_pareto_front
    all_population, all_params, all_total_params, all_latencies, all_memories,
    counts,                   \* self.counts (Counter: key -> occurrences)
    population,               \* search(): population
    population_params, population_total_params,
    population_latencies, population_memories,
    parents_population, parents_params, parents_total_params,
    parents_latencies, parents_memories,
    weights,                  \* search(): weights
    mutated_population, crossovered_population,
    k,                        \* loop counter of the sampling / variation loops
    i,                        \* search(): iteration index
    logs,                     \* search(): logs, one record per iteration
    files,                    \* names of the records written to results_path
    n_evaluations,            \* number of genes measured by _calculate_constraints
    call,                     \* the arguments of the call under way, when it has any
    outcome,                  \* what the call returned, or the exception it raised
    paths,                    \* OrderedDictLogger: self.paths
    stack,                    \* OrderedDictLogger: self.stack
    call_count,               \* OrderedDictLogger: self.call_count
    root                      \* OrderedDictLogger: the tree under self.stack[0]

vars == << pc, evaluator,
           population_size, parent_size, mutation_size, crossover_size, n_iter,
           param_constraint_lower, param_constraint_upper, latency_constraint_upper,
           profile, pareto, p_inds,
           all_population, all_params, all_total_params, all_latencies, all_memories,
           counts, population,
           population_params, population_total_params,
           population_latencies, population_memories,
           parents_population, parents_params, parents_total_params,
           parents_latencies, parents_memories,
           weights, mutated_population, crossovered_population,
           k, i, logs, files, n_evaluations, call, outcome,
           paths, stack, call_count, root >>

(***************************************************************************)
(* The state of an OrderedDictLogger                                       *)
(* (src/archai/common/ordered_dict_logger.py).  The tree of nested         *)
(* OrderedDicts under the root node is a function from key paths to what   *)
(* is stored there: OrderedDict for a nested node, a scalar otherwise.  An *)
(* entry of the stack is the place in the tree of the node it refers to,   *)
(* or is not resolved yet (None in the source).                            *)
(***************************************************************************)
logger_vars == << paths, stack, call_count, root >>

OrderedDict == "OrderedDict()"

Unresolved == [ resolved |-> FALSE, at |-> << >> ]
NodeAt(at) == [ resolved |-> TRUE, at |-> at ]

\* OrderedDictLogger.__init__
NewLogger ==
    /\ paths = << << "" >> >>
    /\ stack = << NodeAt(<< >>) >>
    /\ call_count = 0
    /\ root = (<< >> :> OrderedDict)

(***************************************************************************)
(* Bounds of the model.                                                    *)
(***************************************************************************)
\* largest population_size a constructor call is given
MaxPopulation == 3
\* largest n_iter a constructor call is given
MaxIter == 2

(***************************************************************************)
(* Sequence helpers.                                                       *)
(***************************************************************************)
Range(s) == { s[j] : j \in 1..Len(s) }

\* Python's s[idx:] with a 0-based idx
Drop(s, idx) == SubSeq(s, idx + 1, Len(s))

MaxOf(S) == CHOOSE x \in S : \A y \in S : y <= x
MinOf(S) == CHOOSE x \in S : \A y \in S : x <= y

\* number of positions of s that hold x
Occurrences(s, x) == Cardinality({ j \in 1..Len(s) : s[j] = x })

(***************************************************************************)
(* Exact rational arithmetic for the selection weights: a rational is a    *)
(* pair <<numerator, denominator>> in lowest terms, denominator > 0.       *)
(***************************************************************************)
RECURSIVE Gcd(_, _)
Gcd(a, b) == IF b = 0 THEN a ELSE Gcd(b, a % b)

Abs(a) == IF a < 0 THEN -a ELSE a

Rat(n, d) ==
    LET g == Gcd(Abs(n), Abs(d))
        s == IF d < 0 THEN -1 ELSE 1
    IN  << (s * n) \div g, (s * d) \div g >>

RatAdd(a, b) == Rat(a[1] * b[2] + b[1] * a[2], a[2] * b[2])
RatDiv(a, b) == Rat(a[1] * b[2], a[2] * b[1])
RatLess(a, b) == a[1] * b[2] < b[1] * a[2]

RECURSIVE RatSum(_)
RatSum(s) == IF s = << >> THEN << 0, 1 >> ELSE RatAdd(Head(s), RatSum(Tail(s)))

(***************************************************************************)
(* GeneSpace (the Converter collaborator): two dimensions with allowed     *)
(* values [0,1,2] and [0,1], six genes in all.                             *)
(***************************************************************************)
allowed_genes == << << 0, 1, 2 >>, << 0, 1 >> >>
gene_size == Len(allowed_genes)

GeneSpace ==
    { g \in [1..gene_size -> 0..2] : \A d \in 1..gene_size : g[d] \in Range(allowed_genes[d]) }

\* converter.gene_to_key: a canonical key, equal for equal genes and only
\* for them (the genes' digits read in base 3)
RECURSIVE gene_to_key(_)
gene_to_key(gene) ==
    IF gene = << >> THEN 0
    ELSE gene[Len(gene)] + 3 * gene_to_key(SubSeq(gene, 1, Len(gene) - 1))

(***************************************************************************)
(* CandidateEvaluator (the measurement collaborators).  Each evaluator is  *)
(* a pure function of the gene.                                            *)
(*   scenario: params = g0*10 + g1*5, latency = 10 - g0, constant memory   *)
(*   tradeoff: more decoder params cost latency; g1 only costs memory      *)
(***************************************************************************)
Evaluators == { "scenario", "tradeoff" }

\* load_model_formula(model_type)(model_config)['total']
total_params_analytical(gene) == 10 * gene[1] + 5 * gene[2]

\* measure_parameters(model, ['non_embedding'])
measure_decoder_params(ev, gene) ==
    CASE ev = "scenario" -> 10 * gene[1] + 5 * gene[2]
      [] OTHER           -> gene[1]

\* measure_parameters(model, ['total'])
measure_total_params(ev, gene) == total_params_analytical(gene)

\* measure_inference_latency(model, ...)
measure_inference_latency(ev, gene) ==
    CASE ev = "scenario" -> 10 - gene[1]
      [] OTHER           -> gene[1]

\* measure_peak_memory(model, ...)
measure_peak_memory(ev, gene) ==
    CASE ev = "scenario" -> 1
      [] OTHER           -> gene[2]

(***************************************************************************)
(* Evolution._check_constraints                                            *)
(***************************************************************************)
\* latency_constraint_upper = None
None == -1

\* the upper parameter bound taken as exclusive
_check_constraints_upper_exclusive(gene) ==
    IF total_params_analytical(gene) < param_constraint_lower THEN FALSE
    ELSE IF total_params_analytical(gene) >= param_constraint_upper THEN FALSE
    ELSE IF /\ latency_constraint_upper # None
            /\ measure_inference_latency(evaluator, gene) > latency_constraint_upper
         THEN FALSE
    ELSE TRUE

_check_constraints(gene) ==
    IF total_params_analytical(gene) < param_constraint_lower THEN FALSE
    ELSE IF total_params_analytical(gene) > param_constraint_upper THEN FALSE
    ELSE IF /\ latency_constraint_upper # None
            /\ measure_inference_latency(evaluator, gene) > latency_constraint_upper
         THEN FALSE
    ELSE TRUE

\* _check_constraints reaches the measurement of the latency: neither of the
\* two parameter tests has returned and a latency bound is configured
latency_stage(gene) ==
    /\ ~ (total_params_analytical(gene) < param_constraint_lower)
    /\ ~ (total_params_analytical(gene) > param_constraint_upper)
    /\ latency_constraint_upper # None

(***************************************************************************)
(* Evolution._calculate_constraints: one measurement of each objective per *)
(* gene, in the order of the genes.                                        *)
(***************************************************************************)
_calculate_constraints(genes) ==
    [ params       |-> [ j \in 1..Len(genes) |-> measure_decoder_params(evaluator, genes[j]) ],
      total_params |-> [ j \in 1..Len(genes) |-> measure_total_params(evaluator, genes[j]) ],
      latencies    |-> [ j \in 1..Len(genes) |-> measure_inference_latency(evaluator, genes[j]) ],
      memories     |-> [ j \in 1..Len(genes) |-> measure_peak_memory(evaluator, genes[j]) ] ]

(***************************************************************************)
(* find_pareto_points (nas_utils.pareto_front): the row indices of the     *)
(* points no other point dominates.  A dominates B iff A is at least as    *)
(* good as B on every axis and strictly better on at least one; with       *)
(* is_decreasing lower is better on every axis.                            *)
(***************************************************************************)
AtLeastAsGood(a, b, is_decreasing) == IF is_decreasing THEN a <= b ELSE a >= b

dominates(a, b, is_decreasing) ==
    /\ \A d \in 1..Len(a) : AtLeastAsGood(a[d], b[d], is_decreasing)
    /\ \E d \in 1..Len(a) : a[d] # b[d]

RECURSIVE AscendingSeq(_)
AscendingSeq(S) ==
    IF S = {} THEN << >>
    ELSE LET m == MinOf(S) IN << m >> \o AscendingSeq(S \ { m })

find_pareto_points(points, is_decreasing) ==
    AscendingSeq({ a \in 1..Len(points) :
                     ~ \E b \in 1..Len(points) :
                           b # a /\ dominates(points[b], points[a], is_decreasing) })

(***************************************************************************)
(* Evolution._update_pareto_front                                          *)
(***************************************************************************)
\* mutants of pareto_points: the memory axis left out; decoder params not
\* turned into a decreasing quantity
pareto_points_without_memory(params, latencies, memories) ==
    [ j \in 1..Len(params) |-> << MaxOf(Range(params)) - params[j], latencies[j] >> ]

pareto_points_not_flipped(params, latencies, memories) ==
    [ j \in 1..Len(params) |-> << params[j], latencies[j], memories[j] >> ]

\* mutant of pareto_points: the total parameter count as a fourth axis
pareto_points_with_total_params(params, latencies, memories) ==
    [ j \in 1..Len(params) |->
        << MaxOf(Range(params)) - params[j], latencies[j], memories[j],
           all_total_params[j] >> ]

\* the point matrix: decoder params turned into a decreasing quantity,
\* latency, memory; one row per evaluated point
pareto_points(params, latencies, memories) ==
    [ j \in 1..Len(params) |->
        << MaxOf(Range(params)) - params[j], latencies[j], memories[j] >> ]

\* mutant of pareto_inds: the frontier of the current population only
pareto_inds_of_population(is_decreasing) ==
    find_pareto_points(pareto_points(population_params, population_latencies,
                                     population_memories),
                       is_decreasing)

\* the rows of the whole history the frontier is computed over
pareto_inds(is_decreasing) ==
    find_pareto_points(pareto_points(all_params, all_latencies, all_memories),
                       is_decreasing)

\* the assertions of _update_pareto_front
pareto_asserts_hold ==
    /\ Len(all_params) = Len(all_population)
    /\ Len(all_params) = Len(all_total_params)
    /\ Len(all_params) = Len(all_latencies)
    /\ Len(all_params) = Len(all_memories)

pareto_of(inds) ==
    [ population   |-> [ j \in 1..Len(inds) |-> all_population[inds[j]] ],
      params       |-> [ j \in 1..Len(inds) |-> all_params[inds[j]] ],
      total_params |-> [ j \in 1..Len(inds) |-> all_total_params[inds[j]] ],
      latencies    |-> [ j \in 1..Len(inds) |-> all_latencies[inds[j]] ],
      memories     |-> [ j \in 1..Len(inds) |-> all_memories[inds[j]] ] ]

EmptyPareto ==
    [ population |-> << >>, params |-> << >>, total_params |-> << >>,
      latencies |-> << >>, memories |-> << >> ]

(***************************************************************************)
(* The occurrence counter: _is_seen_before, _update_gene_count,            *)
(* _update_population_count.  counts is a Counter: a key it does not hold  *)
(* reads as 0.                                                             *)
(***************************************************************************)
CounterGet(c, key) == IF key \in DOMAIN c THEN c[key] ELSE 0

_is_seen_before(gene) == gene_to_key(gene) \in DOMAIN counts

\* mutant of _update_gene_count: a key the counter does not hold is not
\* entered
_update_gene_count_of_held_keys(c, gene) ==
    LET key == gene_to_key(gene)
    IN  IF key \in DOMAIN c THEN [ c EXCEPT ![key] = @ + 1 ] ELSE c

_update_gene_count(c, gene) ==
    LET key == gene_to_key(gene)
    IN  IF key \in DOMAIN c THEN [ c EXCEPT ![key] = @ + 1 ] ELSE c @@ (key :> 1)

RECURSIVE _update_population_count(_, _)
_update_population_count(c, genes) ==
    IF genes = << >> THEN c
    ELSE _update_population_count(_update_gene_count(c, Head(genes)), Tail(genes))

(***************************************************************************)
(* Evolution._calculate_weighted_count.  The result is the weight vector,  *)
(* or ok = FALSE when the computation raises (max of an empty list, or a   *)
(* division by a zero counts_range).                                       *)
(***************************************************************************)
pareto_counts(genes, c) == [ j \in 1..Len(genes) |-> CounterGet(c, gene_to_key(genes[j])) ]

\* mutant of counts_range: the difference in every case
counts_range_difference(pc_) == MaxOf(Range(pc_)) - MinOf(Range(pc_))

counts_range(pc_) ==
    LET counts_max == MaxOf(Range(pc_))
        counts_min == MinOf(Range(pc_))
    IN  IF counts_max = counts_min THEN counts_max ELSE counts_max - counts_min

\* mutant of count_weight: scaled between 0 and 1 and not inverted
count_weight_not_inverted(count, counts_min, range) ==
    RatAdd(Rat(count - counts_min, range), << 1, 1 >>)

\* scaled between 0 and 1, then inverted
count_weight(count, counts_min, range) ==
    RatDiv(<< 1, 1 >>, RatAdd(Rat(count - counts_min, range), << 1, 1 >>))

\* mutant of normalize: the weights are returned as they are
normalize_skipped(count_weights) == count_weights

\* count_weights / np.sum(count_weights)
normalize(count_weights) ==
    [ j \in 1..Len(count_weights) |-> RatDiv(count_weights[j], RatSum(count_weights)) ]

_calculate_weighted_count(genes, c) ==
    LET pcs == pareto_counts(genes, c)
    IN  IF genes = << >> THEN [ ok |-> FALSE, weights |-> << >> ]
        ELSE IF counts_range(pcs) = 0 THEN [ ok |-> FALSE, weights |-> << >> ]
        ELSE [ ok |-> TRUE,
               weights |-> normalize([ j \in 1..Len(pcs) |->
                              count_weight(pcs[j], MinOf(Range(pcs)), counts_range(pcs)) ]) ]

(***************************************************************************)
(* Evolution._mutation and Evolution._crossover.  Probabilities and the    *)
(* draws of np.random.uniform() are in percent; draws[d] is the uniform    *)
(* draw of dimension d, picks[d] the value random.choices would return.    *)
(***************************************************************************)
mutation_prob == 30
crossover_prob == 50

\* representative outcomes of np.random.uniform(), a number in [0, 1)
UniformDraws == { 0, 99 }
DrawVectors == [ 1..gene_size -> UniformDraws ]

\* a draw equal to the probability also mutates
_mutation_inclusive(gene, prob, draws, picks) ==
    [ d \in 1..gene_size |-> IF draws[d] <= prob THEN picks[d] ELSE gene[d] ]

\* a drawn value equal to the parent's is replaced by the next allowed one
_mutation_to_other_value(gene, prob, draws, picks) ==
    [ d \in 1..gene_size |->
        IF draws[d] < prob
        THEN IF picks[d] = gene[d] /\ Len(allowed_genes[d]) > 1
             THEN allowed_genes[d][((gene[d] + 1) % Len(allowed_genes[d])) + 1]
             ELSE picks[d]
        ELSE gene[d] ]

\* the value of a dimension drawn from the allowed values of the next one
_mutation_across_dimensions(gene, prob, draws, picks) ==
    [ d \in 1..gene_size |-> IF draws[d] < prob THEN picks[(d % gene_size) + 1] ELSE gene[d] ]

_mutation(gene, prob, draws, picks) ==
    [ d \in 1..gene_size |-> IF draws[d] < prob THEN picks[d] ELSE gene[d] ]

\* the two parents taken in the other order
_crossover_swapped(genes, prob, draws) ==
    [ d \in 1..gene_size |-> IF draws[d] < prob THEN genes[2][d] ELSE genes[1][d] ]

_crossover(genes, prob, draws) ==
    [ d \in 1..gene_size |-> IF draws[d] < prob THEN genes[1][d] ELSE genes[2][d] ]

(***************************************************************************)
(* Constructor arguments.                                                  *)
(***************************************************************************)
\* (param_constraint_lower, param_constraint_upper, latency_constraint_upper)
ConstraintProfiles == { << 5, 15, None >>, << 5, 15, 9 >> }

\* (parent_size, mutation_size, crossover_size): at least one parent and
\* at least one child per generation
SizeTriples ==
    { t \in (1..MaxPopulation) \X (0..MaxPopulation) \X (0..MaxPopulation) :
        t[2] + t[3] >= 1 /\ t[1] + t[2] + t[3] <= MaxPopulation }

\* no call under way, nothing returned or raised
NoCall == [ op |-> "" ]
Returned(value) == [ raised |-> "", value |-> value ]
Raised(exception) == [ raised |-> exception, value |-> << >> ]
NoOutcome == Returned(<< >>)

Init ==
    /\ pc = "new"
    /\ evaluator \in Evaluators
    /\ \E t \in SizeTriples :
          /\ parent_size = t[1]
          /\ mutation_size = t[2]
          /\ crossover_size = t[3]
    /\ population_size \in 1..MaxPopulation
    /\ n_iter \in 1..MaxIter
    /\ \E c \in ConstraintProfiles :
          /\ param_constraint_lower = c[1]
          /\ param_constraint_upper = c[2]
          /\ latency_constraint_upper = c[3]
    /\ profile = << >>
    /\ pareto = EmptyPareto
    /\ p_inds = << >>
    /\ all_population = << >>
    /\ all_params = << >>
    /\ all_total_params = << >>
    /\ all_latencies = << >>
    /\ all_memories = << >>
    /\ counts = << >>
    /\ population = << >>
    /\ population_params = << >>
    /\ population_total_params = << >>
    /\ population_latencies = << >>
    /\ population_memories = << >>
    /\ parents_population = << >>
    /\ parents_params = << >>
    /\ parents_total_params = << >>
    /\ parents_latencies = << >>
    /\ parents_memories = << >>
    /\ weights = << >>
    /\ mutated_population = << >>
    /\ crossovered_population = << >>
    /\ k = 0
    /\ i = 0
    /\ logs = << >>
    /\ files = << >>
    /\ n_evaluations = 0
    /\ call = NoCall
    /\ outcome = NoOutcome
    /\ NewLogger

config_vars == << evaluator, population_size, parent_size, mutation_size, crossover_size,
                  n_iter, param_constraint_lower, param_constraint_upper,
                  latency_constraint_upper >>

history_vars == << all_population, all_params, all_total_params, all_latencies,
                   all_memories >>

population_values == << population_params, population_total_params,
                        population_latencies, population_memories >>

parents_vars == << parents_population, parents_params, parents_total_params,
                   parents_latencies, parents_memories, weights >>

\* nothing sampled, evaluated or written
NothingRun ==
    /\ pareto = EmptyPareto
    /\ p_inds = << >>
    /\ all_population = << >>
    /\ all_params = << >>
    /\ all_total_params = << >>
    /\ all_latencies = << >>
    /\ all_memories = << >>
    /\ counts = << >>
    /\ population = << >>
    /\ population_params = << >>
    /\ population_total_params = << >>
    /\ population_latencies = << >>
    /\ population_memories = << >>
    /\ parents_population = << >>
    /\ parents_params = << >>
    /\ parents_total_params = << >>
    /\ parents_latencies = << >>
    /\ parents_memories = << >>
    /\ weights = << >>
    /\ mutated_population = << >>
    /\ crossovered_population = << >>
    /\ k = 0
    /\ i = 0
    /\ logs = << >>
    /\ files = << >>
    /\ n_evaluations = 0

\* everything but the configuration, the phase and the call
run_vars == << profile, pareto, p_inds, history_vars, counts, population, population_values,
               parents_vars, mutated_population, crossovered_population, k, i, logs, files,
               n_evaluations >>

(***************************************************************************)
(* Evolution.__init__ with _profile                                        *)
(***************************************************************************)
_profile_model(gene) ==
    << measure_decoder_params(evaluator, gene), measure_total_params(evaluator, gene),
       measure_inference_latency(evaluator, gene), measure_peak_memory(evaluator, gene) >>

_profile ==
    LET max_gene == [ d \in 1..gene_size |-> allowed_genes[d][Len(allowed_genes[d])] ]
        min_gene == [ d \in 1..gene_size |-> allowed_genes[d][1] ]
    IN  [ max |-> _profile_model(max_gene), min |-> _profile_model(min_gene) ]

\* the sizes agree and the crossover has two parents to draw
sizes_agree_with_parents_to_cross ==
    /\ population_size = parent_size + mutation_size + crossover_size
    /\ crossover_size >= 1 => parent_size >= 2

\* the assert of line 85 taken as an upper limit only
sizes_within_population ==
    population_size >= parent_size + mutation_size + crossover_size

sizes_agree == population_size = parent_size + mutation_size + crossover_size

\* the gene spaces a converter can hand to the constructor: the one of this
\* model, and the same with one dimension left without allowed values
GeneSpaces ==
    { allowed_genes } \cup
    { [ allowed_genes EXCEPT ![d] = << >> ] : d \in 1..gene_size }

\* self.allowed_genes[k][-1] of an empty list: IndexError
_profile_raises(allowed) == \E d \in 1..Len(allowed) : Len(allowed[d]) = 0

\* Evolution(...) over a converter whose allowed values are `allowed`
construct(allowed) ==
    /\ pc = "new"
    /\ call' = [ op |-> "__init__", allowed_genes |-> allowed ]
    /\ IF ~ sizes_agree
       THEN /\ pc' = "rejected"
            /\ outcome' = Raised("AssertionError")
            /\ UNCHANGED << profile, pareto, counts, history_vars >>
       ELSE /\ pareto' = EmptyPareto
            /\ all_population' = << >>
            /\ all_params' = << >>
            /\ all_total_params' = << >>
            /\ all_latencies' = << >>
            /\ all_memories' = << >>
            /\ counts' = << >>
            /\ IF _profile_raises(allowed)
               THEN /\ pc' = "rejected"
                    /\ outcome' = Raised("IndexError")
                    /\ UNCHANGED profile
               ELSE /\ pc' = "constructed"
                    /\ outcome' = NoOutcome
                    /\ profile' = _profile
    /\ UNCHANGED << config_vars, logger_vars, p_inds, population, population_values, parents_vars,
                    mutated_population, crossovered_population, k, i, logs, files,
                    n_evaluations >>

__init__ == construct(allowed_genes)

(***************************************************************************)
(* Evolution.sample_random_population, as search() calls it: one pass of   *)
(* the while loop per step.                                                *)
(***************************************************************************)
sample_random_population ==
    /\ pc \in { "constructed", "sampling" }
    /\ Len(population) < population_size
    /\ pc' = "sampling"
    /\ \E sampled_gene \in GeneSpace :
          population' = IF _check_constraints(sampled_gene)
                        THEN Append(population, sampled_gene)
                        ELSE population
    /\ UNCHANGED << call, outcome, config_vars, logger_vars, profile, pareto, p_inds, history_vars, counts,
                    population_values, parents_vars, mutated_population,
                    crossovered_population, k, i, logs, files, n_evaluations >>

(***************************************************************************)
(* search(): the statements between the sampling and the loop              *)
(***************************************************************************)
\* the loop stops one generation short
more_iterations_one_short(next_i) == next_i < n_iter - 1

\* for i in range(self.n_iter): the only test that ends the loop
more_iterations(next_i) == next_i < n_iter

search_begin ==
    /\ pc = "sampling"
    /\ Len(population) = population_size
    /\ all_population' = population
    /\ counts' = _update_population_count(counts, population)
    /\ logs' = << >>
    /\ parents_params' = << >>
    /\ parents_total_params' = << >>
    /\ parents_latencies' = << >>
    /\ parents_memories' = << >>
    /\ i' = 0
    /\ pc' = IF more_iterations(0) THEN "evaluating" ELSE "finishing"
    /\ UNCHANGED << call, outcome, config_vars, logger_vars, profile, pareto, p_inds, all_params, all_total_params,
                    all_latencies, all_memories, population, population_values,
                    parents_population, weights, mutated_population,
                    crossovered_population, k, files, n_evaluations >>

(***************************************************************************)
(* search(): measure the unseen part of the population and append it to    *)
(* the history                                                             *)
(***************************************************************************)
\* mutant of extend: the list is replaced by the new values
extend_by_assignment(history, values) == values

\* history += values
extend(history, values) == history \o values

\* mutant of unseen_from: the last carried-over parent is measured again
unseen_from_last_parent == IF i = 0 THEN 0 ELSE parent_size - 1

\* idx: where the not yet measured part of the population starts
unseen_from == IF i = 0 THEN 0 ELSE parent_size

evaluate ==
    /\ pc = "evaluating"
    /\ LET unseen == _calculate_constraints(Drop(population, unseen_from))
       IN  /\ population_params' = parents_params \o unseen.params
           /\ population_total_params' = parents_total_params \o unseen.total_params
           /\ population_latencies' = parents_latencies \o unseen.latencies
           /\ population_memories' = parents_memories \o unseen.memories
           /\ n_evaluations' = n_evaluations + Len(unseen.params)
           /\ IF /\ Len(population_params') = population_size
                 /\ Len(population_total_params') = population_size
                 /\ Len(population_latencies') = population_size
                 /\ Len(population_memories') = population_size
              THEN /\ all_params' = extend(all_params, unseen.params)
                   /\ all_total_params' = extend(all_total_params, unseen.total_params)
                   /\ all_latencies' = extend(all_latencies, unseen.latencies)
                   /\ all_memories' = extend(all_memories, unseen.memories)
                   /\ pc' = "pareto"
              ELSE /\ pc' = "assertion_error"
                   /\ UNCHANGED << all_params, all_total_params, all_latencies,
                                   all_memories >>
    /\ UNCHANGED << call, outcome, config_vars, logger_vars, profile, pareto, p_inds, all_population, counts,
                    population, parents_vars, mutated_population,
                    crossovered_population, k, i, logs, files >>

(***************************************************************************)
(* search(): self._update_pareto_front(is_decreasing=True)                 *)
(***************************************************************************)
_update_pareto_front ==
    /\ pc = "pareto"
    /\ p_inds' = pareto_inds(TRUE)
    /\ IF pareto_asserts_hold
       THEN /\ pareto' = pareto_of(p_inds')
            /\ pc' = "selecting"
       ELSE /\ pareto' = EmptyPareto
            /\ pc' = "assertion_error"
    /\ UNCHANGED << call, outcome, config_vars, logger_vars, profile, history_vars, counts, population,
                    population_values, parents_vars, mutated_population,
                    crossovered_population, k, i, logs, files, n_evaluations >>

(***************************************************************************)
(* search(): weights, np.random.choice and the parents_* lists             *)
(***************************************************************************)
\* mutant of choices: no frontier point is drawn more often than the
\* frontier has points
choices_at_most_n(n, size, p) ==
    [ 1..(IF size < n THEN size ELSE n) -> { j \in 1..n : RatLess(<< 0, 1 >>, p[j]) } ]

\* np.random.choice(n, size, p): every way of drawing size indices, each of
\* non-zero probability, with replacement
choices(n, size, p) == [ 1..size -> { j \in 1..n : RatLess(<< 0, 1 >>, p[j]) } ]

select_parents ==
    /\ pc = "selecting"
    /\ LET w == _calculate_weighted_count(pareto.population, counts)
       IN  IF ~ w.ok
           THEN /\ pc' = "error"
                /\ UNCHANGED << parents_vars, mutated_population, k >>
           ELSE \E selected_idx \in choices(Len(pareto.population), parent_size, w.weights) :
                   /\ weights' = w.weights
                   /\ parents_population' =
                         [ m \in 1..Len(selected_idx) |-> pareto.population[selected_idx[m]] ]
                   /\ parents_params' =
                         [ m \in 1..Len(selected_idx) |-> pareto.params[selected_idx[m]] ]
                   /\ parents_total_params' =
                         [ m \in 1..Len(selected_idx) |-> pareto.total_params[selected_idx[m]] ]
                   /\ parents_latencies' =
                         [ m \in 1..Len(selected_idx) |-> pareto.latencies[selected_idx[m]] ]
                   /\ parents_memories' =
                         [ m \in 1..Len(selected_idx) |-> pareto.memories[selected_idx[m]] ]
                   /\ mutated_population' = << >>
                   /\ k' = 0
                   /\ pc' = "mutating"
    /\ UNCHANGED << call, outcome, config_vars, logger_vars, profile, pareto, p_inds, history_vars, counts,
                    population, population_values, crossovered_population, i, logs,
                    files, n_evaluations >>

(***************************************************************************)
(* search(): the mutation loop, one pass per step                          *)
(***************************************************************************)
\* mutant of accepted: the seen-before test left out
accepted_if_valid(gene) == _check_constraints(gene)

\* mutant of accepted: a child larger than the profiled largest model is
\* turned down
accepted_below_profiled_maximum(gene) ==
    /\ _check_constraints(gene)
    /\ ~ _is_seen_before(gene)
    /\ measure_total_params(evaluator, gene) <= profile.max[2]

\* mutant of accepted: the constraint test left out
accepted_if_unseen(gene) == ~ _is_seen_before(gene)

accepted(gene) == _check_constraints(gene) /\ ~ _is_seen_before(gene)

\* random.choices(parents_population)[0] raises on an empty parent list
mutation_step ==
    /\ pc = "mutating"
    /\ k < mutation_size
    /\ IF parents_population = << >>
       THEN /\ pc' = "error"
            /\ UNCHANGED << mutated_population, k >>
       ELSE /\ pc' = pc
            /\ \E gene \in Range(parents_population), draws \in DrawVectors,
                  picks \in GeneSpace :
                  LET mutated_gene == _mutation(gene, mutation_prob, draws, picks)
                  IN  IF accepted(mutated_gene)
                      THEN /\ mutated_population' = Append(mutated_population, mutated_gene)
                           /\ k' = k + 1
                      ELSE UNCHANGED << mutated_population, k >>
    /\ UNCHANGED << call, outcome, config_vars, logger_vars, profile, pareto, p_inds, history_vars, counts,
                    population, population_values, parents_vars,
                    crossovered_population, i, logs, files, n_evaluations >>

mutation_done ==
    /\ pc = "mutating"
    /\ k >= mutation_size
    /\ crossovered_population' = << >>
    /\ k' = 0
    /\ pc' = "crossing"
    /\ UNCHANGED << call, outcome, config_vars, logger_vars, profile, pareto, p_inds, history_vars, counts,
                    population, population_values, parents_vars, mutated_population,
                    i, logs, files, n_evaluations >>

(***************************************************************************)
(* search(): the crossover loop, one pass per step.  random.sample draws   *)
(* two different positions of the parent list and raises when the list is  *)
(* shorter than two.                                                       *)
(***************************************************************************)
\* random.sample(genes, 2): the members at two different positions, in any
\* order
sample_two(genes) ==
    { << genes[c[1]], genes[c[2]] >> :
          c \in { c \in (1..Len(genes)) \X (1..Len(genes)) : c[1] # c[2] } }

crossover_step ==
    /\ pc = "crossing"
    /\ k < crossover_size
    /\ IF Len(parents_population) < 2
       THEN /\ pc' = "error"
            /\ UNCHANGED << crossovered_population, k >>
       ELSE /\ pc' = pc
            /\ \E genes \in sample_two(parents_population), draws \in DrawVectors :
                  LET crossovered_gene == _crossover(genes, crossover_prob, draws)
                  IN  IF accepted(crossovered_gene)
                      THEN /\ crossovered_population' =
                                 Append(crossovered_population, crossovered_gene)
                           /\ k' = k + 1
                      ELSE UNCHANGED << crossovered_population, k >>
    /\ UNCHANGED << call, outcome, config_vars, logger_vars, profile, pareto, p_inds, history_vars, counts,
                    population, population_values, parents_vars, mutated_population,
                    i, logs, files, n_evaluations >>

(***************************************************************************)
(* search(): the end of an iteration: the record of the iteration, the     *)
(* next population, the occurrence counter and the gene history            *)
(***************************************************************************)
\* a file written to results_path: its name, the index in the name when it
\* has one, and what was pickled into it
written(name, index, content) == [ name |-> name, index |-> index, content |-> content ]

\* the logs of search(): a dictionary of lists, one entry per generation
logs_dict(records) ==
    [ population   |-> [ g \in 1..Len(records) |-> records[g].population ],
      params       |-> [ g \in 1..Len(records) |-> records[g].params ],
      total_params |-> [ g \in 1..Len(records) |-> records[g].total_params ],
      latencies    |-> [ g \in 1..Len(records) |-> records[g].latencies ],
      memories     |-> [ g \in 1..Len(records) |-> records[g].memories ],
      parents      |-> [ g \in 1..Len(records) |-> records[g].parents ],
      pareto       |-> [ g \in 1..Len(records) |-> records[g].pareto ] ]

\* the record taken after the next population was built
log_record_of_next_population ==
    [ population   |-> parents_population \o mutated_population \o crossovered_population,
      params       |-> population_params,
      total_params |-> population_total_params,
      latencies    |-> population_latencies,
      memories     |-> population_memories,
      parents      |-> parents_population,
      pareto       |-> pareto ]

log_record ==
    [ population   |-> population,
      params       |-> population_params,
      total_params |-> population_total_params,
      latencies    |-> population_latencies,
      memories     |-> population_memories,
      parents      |-> parents_population,
      pareto       |-> pareto ]

\* mutant of next_population: the crossed-over children left out
next_population_without_crossover == parents_population \o mutated_population

\* mutant of next_population: the children ahead of the parents
next_population_children_first ==
    mutated_population \o crossovered_population \o parents_population

next_population == parents_population \o mutated_population \o crossovered_population

\* mutant of counted_population: only the new children are counted
counted_children_only(new_population) == Drop(new_population, parent_size)

\* the genes handed to _update_population_count
counted_population(new_population) == new_population

end_iteration ==
    /\ pc = "crossing"
    /\ k >= crossover_size
    /\ logs' = Append(logs, log_record)
    /\ files' = Append(files, written("logs_itr", i, log_record))
    /\ population' = next_population
    /\ IF Len(population') = population_size
       THEN /\ counts' = _update_population_count(counts, counted_population(population'))
            /\ all_population' = extend(all_population, mutated_population \o crossovered_population)
            /\ i' = i + 1
            /\ pc' = IF more_iterations(i + 1) THEN "evaluating" ELSE "finishing"
       ELSE /\ pc' = "assertion_error"
            /\ UNCHANGED << counts, all_population, i >>
    /\ UNCHANGED << call, outcome, config_vars, logger_vars, profile, pareto, p_inds, all_params, all_total_params,
                    all_latencies, all_memories, population_values, parents_vars,
                    mutated_population, crossovered_population, k, n_evaluations >>

(***************************************************************************)
(* search(): the consolidated record after the loop                        *)
(***************************************************************************)
finish ==
    /\ pc = "finishing"
    /\ files' = Append(files, written("logs", None, logs_dict(logs)))
    /\ pc' = "done"
    /\ UNCHANGED << call, outcome, config_vars, logger_vars, profile, pareto, p_inds, history_vars, counts,
                    population, population_values, parents_vars, mutated_population,
                    crossovered_population, k, i, logs, n_evaluations >>

Next ==
    \/ __init__
    \/ sample_random_population
    \/ search_begin
    \/ evaluate
    \/ _update_pareto_front
    \/ select_parents
    \/ mutation_step
    \/ mutation_done
    \/ crossover_step
    \/ end_iteration
    \/ finish

Spec == Init /\ [][Next]_vars

(***************************************************************************)
(* Construction over any of the gene spaces, and the first steps of        *)
(* search() on what was constructed.                                       *)
(***************************************************************************)
__init___any_space == \E allowed \in GeneSpaces : construct(allowed)

NextInit ==
    \/ __init___any_space
    \/ sample_random_population
    \/ search_begin
    \/ evaluate

SpecInit == Init /\ [][NextInit]_vars

(***************************************************************************)
(* Evolution.semi_brute_force(n_samples, batch) on a constructed engine    *)
(* with no saved population: call holds the arguments, i is the loop's     *)
(* idx, population the sampled pool.                                       *)
(***************************************************************************)
MaxSamples == 3
MaxBatch == 2

\* the keyword parameters of plot_search_state
plot_search_state_keywords == { "iteration", "parents" }

InitBruteForce ==
    /\ pc = "constructed"
    /\ evaluator \in Evaluators
    /\ \E t \in SizeTriples :
          /\ parent_size = t[1]
          /\ mutation_size = t[2]
          /\ crossover_size = t[3]
          /\ population_size = t[1] + t[2] + t[3]
    /\ n_iter \in 1..MaxIter
    /\ \E c \in ConstraintProfiles :
          /\ param_constraint_lower = c[1]
          /\ param_constraint_upper = c[2]
          /\ latency_constraint_upper = c[3]
    /\ profile = _profile
    /\ NothingRun
    /\ call = NoCall
    /\ outcome = NoOutcome
    /\ NewLogger

semi_brute_force ==
    /\ pc = "constructed"
    /\ call = NoCall
    /\ \E n_samples \in 0..MaxSamples, batch \in 1..MaxBatch :
          call' = [ op |-> "semi_brute_force", n_samples |-> n_samples, batch |-> batch ]
    /\ pc' = "brute_force_sampling"
    /\ UNCHANGED << outcome, config_vars, logger_vars, run_vars >>

\* sample_random_population(n_samples): one pass of the while loop
brute_force_sample ==
    /\ pc = "brute_force_sampling"
    /\ Len(population) < call.n_samples
    /\ \E sampled_gene \in GeneSpace :
          population' = IF _check_constraints(sampled_gene)
                        THEN Append(population, sampled_gene)
                        ELSE population
    /\ UNCHANGED << pc, call, outcome, config_vars, logger_vars, profile, pareto, p_inds, history_vars,
                    counts, population_values, parents_vars, mutated_population,
                    crossovered_population, k, i, logs, files, n_evaluations >>

\* the pool is saved; range(0, n_samples, batch) starts
brute_force_sampled ==
    /\ pc = "brute_force_sampling"
    /\ Len(population) = call.n_samples
    /\ files' = Append(files, written("init_population_bruteforce", None, population))
    /\ i' = 0
    /\ IF 0 < call.n_samples
       THEN /\ pc' = "brute_force_batch"
            /\ UNCHANGED outcome
       ELSE /\ pc' = "done"
            /\ outcome' = Returned(None)
    /\ UNCHANGED << call, config_vars, logger_vars, profile, pareto, p_inds, history_vars, counts,
                    population, population_values, parents_vars, mutated_population,
                    crossovered_population, k, logs, n_evaluations >>

\* population[idx:idx+batch]
curr_population ==
    SubSeq(population, i + 1,
           IF i + call.batch < Len(population) THEN i + call.batch ELSE Len(population))

\* one batch measured and appended to the history
brute_force_batch ==
    /\ pc = "brute_force_batch"
    /\ LET curr == _calculate_constraints(curr_population)
       IN  /\ population_params' = curr.params
           /\ population_total_params' = curr.total_params
           /\ population_latencies' = curr.latencies
           /\ population_memories' = curr.memories
           /\ n_evaluations' = n_evaluations + Len(curr.params)
           /\ all_population' = all_population \o curr_population
           /\ all_params' = all_params \o curr.params
           /\ all_total_params' = all_total_params \o curr.total_params
           /\ all_latencies' = all_latencies \o curr.latencies
           /\ all_memories' = all_memories \o curr.memories
    /\ pc' = "brute_force_pareto"
    /\ UNCHANGED << call, outcome, config_vars, logger_vars, profile, pareto, p_inds, counts, population,
                    parents_vars, mutated_population, crossovered_population, k, i, logs,
                    files >>

\* the record of a batch
brute_force_record ==
    [ population   |-> population,
      params       |-> population_params,
      total_params |-> population_total_params,
      latencies    |-> population_latencies,
      memories     |-> population_memories,
      pareto       |-> pareto_of(pareto_inds(TRUE)) ]

\* the frontier update of the batch, self.plot_search_state(iter=idx), the
\* record of the batch and the step of the loop
brute_force_frontier ==
    /\ pc = "brute_force_pareto"
    /\ p_inds' = pareto_inds(TRUE)
    /\ IF ~ pareto_asserts_hold
       THEN /\ pareto' = EmptyPareto
            /\ pc' = "assertion_error"
            /\ outcome' = Raised("AssertionError")
            /\ UNCHANGED << i, logs, files >>
       ELSE /\ pareto' = pareto_of(p_inds')
            /\ IF "iter" \notin plot_search_state_keywords
               THEN /\ pc' = "type_error"
                    /\ outcome' = Raised("TypeError")
                    /\ UNCHANGED << i, logs, files >>
               ELSE /\ logs' = Append(logs, brute_force_record)
                    /\ files' = Append(files, written("logs_bruteforce", i, brute_force_record))
                    /\ i' = i + call.batch
                    /\ IF i + call.batch < call.n_samples
                       THEN /\ pc' = "brute_force_batch"
                            /\ UNCHANGED outcome
                       ELSE /\ pc' = "done"
                            /\ outcome' = Returned(None)
    /\ UNCHANGED << call, config_vars, logger_vars, profile, history_vars, counts, population,
                    population_values, parents_vars, mutated_population,
                    crossovered_population, k, n_evaluations >>

NextBruteForce ==
    \/ semi_brute_force
    \/ brute_force_sample
    \/ brute_force_sampled
    \/ brute_force_batch
    \/ brute_force_frontier

SpecBruteForce == InitBruteForce /\ [][NextBruteForce]_vars

(***************************************************************************)
(* A measurement of the evaluator that raises.  search() and               *)
(* _check_constraints have no exception handler: the exception leaves the  *)
(* call of measure_inference_latency in _check_constraints or of           *)
(* _calculate_constraints in the loop, and search() with it.               *)
(***************************************************************************)
\* the exception taken as a rejection: the loop under way goes on
on_measurement_error_rejected(phase) == phase

\* where the run is after the exception
on_measurement_error(phase) == "failed"

\* the latency stage of a constraint check is under way: a gene sampled,
\* mutated or crossed over that passed the parameter tests
checking_latency ==
    \/ /\ pc \in { "constructed", "sampling" }
       /\ Len(population) < population_size
       /\ \E sampled_gene \in GeneSpace : latency_stage(sampled_gene)
    \/ /\ pc = "mutating"
       /\ k < mutation_size
       /\ \E gene \in Range(parents_population), draws \in DrawVectors, picks \in GeneSpace :
             latency_stage(_mutation(gene, mutation_prob, draws, picks))
    \/ /\ pc = "crossing"
       /\ k < crossover_size
       /\ \E a \in 1..Len(parents_population), b \in 1..Len(parents_population),
             draws \in DrawVectors :
             /\ a # b
             /\ latency_stage(_crossover(<< parents_population[a], parents_population[b] >>,
                                         crossover_prob, draws))

constraint_check_fails ==
    /\ checking_latency
    /\ call' = [ op |-> "_check_constraints" ]
    /\ outcome' = Raised("MeasurementError")
    /\ pc' = on_measurement_error(pc)
    /\ UNCHANGED << config_vars, logger_vars, run_vars >>

\* _calculate_constraints raises at one of the unseen genes, after the
\* measurements of the genes before it
evaluation_fails ==
    /\ pc = "evaluating"
    /\ \E failing \in 1..Len(Drop(population, unseen_from)) :
          n_evaluations' = n_evaluations + (failing - 1)
    /\ call' = [ op |-> "_calculate_constraints" ]
    /\ outcome' = Raised("MeasurementError")
    /\ pc' = on_measurement_error(pc)
    /\ UNCHANGED << config_vars, logger_vars, profile, pareto, p_inds, history_vars, counts, population,
                    population_values, parents_vars, mutated_population,
                    crossovered_population, k, i, logs, files >>

NextFailing == Next \/ constraint_check_fails \/ evaluation_fails

SpecFailing == Init /\ [][NextFailing]_vars

(***************************************************************************)
(* The scenario of the specification's section 8: all six genes of the     *)
(* gene space are in the population of generation 0, in any order, under   *)
(* the scenario evaluator; they are measured and the frontier is computed. *)
(***************************************************************************)
Orderings(S) ==
    { q \in [1..Cardinality(S) -> S] : \A a, b \in 1..Cardinality(S) : q[a] = q[b] => a = b }

InitScenario ==
    /\ pc = "evaluating"
    /\ evaluator = "scenario"
    /\ population_size = Cardinality(GeneSpace)
    /\ parent_size = Cardinality(GeneSpace) - 2
    /\ mutation_size = 1
    /\ crossover_size = 1
    /\ n_iter = 1
    /\ param_constraint_lower = 0
    /\ param_constraint_upper = 25
    /\ latency_constraint_upper = None
    /\ profile = _profile
    /\ pareto = EmptyPareto
    /\ p_inds = << >>
    /\ population \in Orderings(GeneSpace)
    /\ all_population = population
    /\ all_params = << >>
    /\ all_total_params = << >>
    /\ all_latencies = << >>
    /\ all_memories = << >>
    /\ counts = _update_population_count(<< >>, population)
    /\ population_params = << >>
    /\ population_total_params = << >>
    /\ population_latencies = << >>
    /\ population_memories = << >>
    /\ parents_population = << >>
    /\ parents_params = << >>
    /\ parents_total_params = << >>
    /\ parents_latencies = << >>
    /\ parents_memories = << >>
    /\ weights = << >>
    /\ mutated_population = << >>
    /\ crossovered_population = << >>
    /\ k = 0
    /\ i = 0
    /\ logs = << >>
    /\ files = << >>
    /\ n_evaluations = 0
    /\ call = NoCall
    /\ outcome = NoOutcome
    /\ NewLogger

NextScenario ==
    \/ evaluate
    \/ _update_pareto_front

SpecScenario == InitScenario /\ [][NextScenario]_vars

(***************************************************************************)
(* The methods of a constructed engine called one at a time:               *)
(* _check_constraints(gene), _mutation(gene) and _crossover(genes), one    *)
(* call per engine.  call holds the arguments and the random outcomes of   *)
(* the call, outcome what the call returned.  The probabilities are fields *)
(* of the engine (per cent, as the uniform draws).                         *)
(***************************************************************************)
\* (param_constraint_lower, param_constraint_upper, latency_constraint_upper)
OperatorProfiles == { 0, 5, 10 } \X { 10, 15, 25 } \X { None, 5, 9 }

\* mutation_prob, crossover_prob
Probabilities == { 0, mutation_prob, crossover_prob, 100 }

InitOperators ==
    /\ pc = "constructed"
    /\ evaluator \in Evaluators
    /\ population_size = 3
    /\ parent_size = 1
    /\ mutation_size = 1
    /\ crossover_size = 1
    /\ n_iter = 1
    /\ \E c \in OperatorProfiles :
          /\ param_constraint_lower = c[1]
          /\ param_constraint_upper = c[2]
          /\ latency_constraint_upper = c[3]
    /\ profile = _profile
    /\ NothingRun
    /\ call = NoCall
    /\ outcome = NoOutcome
    /\ NewLogger

call_check_constraints ==
    /\ pc = "constructed"
    /\ call = NoCall
    /\ \E gene \in GeneSpace :
          /\ call' = [ op |-> "_check_constraints", gene |-> gene ]
          /\ outcome' = [ raised |-> "", value |-> _check_constraints(gene),
                          latency_measured |-> latency_stage(gene) ]
    /\ UNCHANGED << pc, config_vars, logger_vars, run_vars >>

call_mutation ==
    /\ pc = "constructed"
    /\ call = NoCall
    /\ \E gene \in GeneSpace, prob \in Probabilities, draws \in DrawVectors,
          picks \in GeneSpace :
          /\ call' = [ op |-> "_mutation", gene |-> gene, mutation_prob |-> prob,
                       draws |-> draws, picks |-> picks ]
          /\ outcome' = Returned(_mutation(gene, prob, draws, picks))
    /\ UNCHANGED << pc, config_vars, logger_vars, run_vars >>

call_crossover ==
    /\ pc = "constructed"
    /\ call = NoCall
    /\ \E genes \in GeneSpace \X GeneSpace, prob \in Probabilities, draws \in DrawVectors :
          /\ call' = [ op |-> "_crossover", genes |-> genes, crossover_prob |-> prob,
                       draws |-> draws ]
          /\ outcome' = Returned(_crossover(genes, prob, draws))
    /\ UNCHANGED << pc, config_vars, logger_vars, run_vars >>

NextOperators == call_check_constraints \/ call_mutation \/ call_crossover

SpecOperators == InitOperators /\ [][NextOperators]_vars

(***************************************************************************)
(* The profiling repeated between two steps of search(): _profile() run    *)
(* again, its measurements returning any of the readings.  It writes the   *)
(* max_* and min_* fields and nothing else, so a step of the search that   *)
(* read the profiled bounds would see the difference.                      *)
(***************************************************************************)
\* what the measurements of the two extremal genes can return: the values
\* of the evaluator, or other readings of them
ProfileReadings ==
    { _profile,
      [ max |-> << 0, 0, 0, 0 >>, min |-> << 0, 0, 0, 0 >> ] }

profile_again ==
    /\ pc \notin { "new", "rejected" }
    /\ \E reading \in ProfileReadings :
          /\ reading # profile
          /\ profile' = reading
    /\ UNCHANGED << pc, call, outcome, config_vars, logger_vars, pareto, p_inds, history_vars, counts,
                    population, population_values, parents_vars, mutated_population,
                    crossovered_population, k, i, logs, files, n_evaluations >>

\* the engines of Init over one of the evaluators
InitProfile == Init /\ evaluator = "scenario"

NextProfile == Next \/ profile_again

SpecProfile == InitProfile /\ [][NextProfile]_vars

(***************************************************************************)
(* search() on engines of any parent_size, none included.                  *)
(***************************************************************************)
\* (parent_size, mutation_size, crossover_size): at least one child per
\* generation
ParentTriples ==
    { t \in (0..MaxPopulation) \X (0..MaxPopulation) \X (0..MaxPopulation) :
        t[2] + t[3] >= 1 /\ t[1] + t[2] + t[3] <= MaxPopulation }

InitParents ==
    /\ pc = "new"
    /\ evaluator \in Evaluators
    /\ \E t \in ParentTriples :
          /\ parent_size = t[1]
          /\ mutation_size = t[2]
          /\ crossover_size = t[3]
    /\ population_size \in 1..MaxPopulation
    /\ n_iter \in 1..MaxIter
    /\ \E c \in ConstraintProfiles :
          /\ param_constraint_lower = c[1]
          /\ param_constraint_upper = c[2]
          /\ latency_constraint_upper = c[3]
    /\ profile = << >>
    /\ NothingRun
    /\ call = NoCall
    /\ outcome = NoOutcome
    /\ NewLogger

SpecParents == InitParents /\ [][Next]_vars

(***************************************************************************)
(* OrderedDictLogger: pushd, popd and the logging calls, one call per      *)
(* step.  A call that raises keeps what it had changed before.             *)
(***************************************************************************)
\* most logging calls made on one logger
MaxLogCalls == 2

\* deepest stack of pushed paths, the root included
MaxDepth == 2

\* keys given to pushd and keys of the dictionaries logged
Keys == { "a", "warnings" }

\* the scalar of a logged dictionary, and a logged string
Scalar == "value"
Message == "message"

\* the text popd logs at the root
InvalidPopd == "Invalid call. No available child in the stack."

Levels == { "INFO", "DEBUG", "WARNING", "ERROR" }

\* the path under which log() stores a string of the given level
level_path(level) ==
    CASE level = "INFO"    -> << "messages" >>
      [] level = "DEBUG"   -> << "debugs" >>
      [] level = "WARNING" -> << "warnings" >>
      [] level = "ERROR"   -> << "errors" >>

IsUnder(at, node) == Len(at) >= Len(node) /\ SubSeq(at, 1, Len(node)) = node

\* the keys a node holds
KeysOf(rt, at) == { q[Len(q)] : q \in { q \in DOMAIN rt : Len(q) = Len(at) + 1 /\ IsUnder(q, at) } }

\* an OrderedDict without keys is false where a truth value is asked for
Truthy(rt, at) == KeysOf(rt, at) # {}

\* node[key] = value: whatever the key held is replaced
SetItem(rt, at, key, value) ==
    LET target == Append(at, key)
    IN  [ q \in { q \in DOMAIN rt : ~ IsUnder(q, target) } \cup { target } |->
            IF q = target THEN value ELSE rt[q] ]

\* the inner loop of current_node: follow the keys of one path from the
\* node at `at`, creating the nodes that are missing; RuntimeError when a
\* key stores a scalar
RECURSIVE descend(_, _, _)
descend(rt, at, path) ==
    IF path = << >> THEN [ raised |-> "", root |-> rt, at |-> at ]
    ELSE LET child == Append(at, Head(path))
             created == IF child \in DOMAIN rt THEN rt ELSE SetItem(rt, at, Head(path), OrderedDict)
         IN  IF created[child] # OrderedDict
             THEN [ raised |-> "RuntimeError", root |-> created, at |-> at ]
             ELSE descend(created, child, Tail(path))

\* the outer loop of current_node, from entry n on: every entry that is
\* None is resolved from the entry before it
RECURSIVE resolve(_, _, _, _)
resolve(st, rt, n, last_obj) ==
    IF n > Len(st) THEN [ raised |-> "", stack |-> st, root |-> rt, at |-> last_obj ]
    ELSE IF st[n].resolved THEN resolve(st, rt, n + 1, st[n].at)
    ELSE LET obj == descend(rt, last_obj, paths[n])
         IN  IF obj.raised # ""
             THEN [ raised |-> obj.raised, stack |-> st, root |-> obj.root, at |-> last_obj ]
             ELSE resolve([ st EXCEPT ![n] = NodeAt(obj.at) ], obj.root, n + 1, obj.at)

\* the property current_node: the node of the last entry of the stack
current_node(st, rt) == resolve(st, rt, 1, << >>)

\* the property root_node
root_node == stack[1].at

\* node or self.current_node
chosen_node(st, rt, node) ==
    IF node.resolved /\ Truthy(rt, node.at)
    THEN [ raised |-> "", stack |-> st, root |-> rt, at |-> node.at ]
    ELSE current_node(st, rt)

\* the loop of update_key over a path of nodes: a missing node is created;
\* what the key holds is taken as the node, a scalar included
RECURSIVE follow(_, _, _)
follow(rt, at, path) ==
    IF path = << >> THEN [ root |-> rt, at |-> at ]
    ELSE LET child == Append(at, Head(path))
         IN  follow(IF child \in DOMAIN rt THEN rt ELSE SetItem(rt, at, Head(path), OrderedDict),
                    child, Tail(path))

\* update_key(key, value, node, path) with override_key = True; node is
\* Unresolved for None.  Storing into a scalar raises TypeError.
update_key(st, rt, key, value, node, path) ==
    LET chosen == chosen_node(st, rt, node)
        target == follow(chosen.root, chosen.at, path)
    IN  IF chosen.raised # ""
        THEN [ raised |-> chosen.raised, stack |-> chosen.stack, root |-> chosen.root ]
        ELSE IF target.root[target.at] # OrderedDict
        THEN [ raised |-> "TypeError", stack |-> chosen.stack, root |-> target.root ]
        ELSE [ raised |-> "", stack |-> chosen.stack,
               root |-> SetItem(target.root, target.at, key, value) ]

\* log(obj, level) of a string: stored from the root node, under the path
\* of the level, with the call count as the key
log_string(message, level) ==
    /\ call_count < MaxLogCalls
    /\ call_count' = call_count + 1
    /\ LET updated == update_key(stack, root, ToString(call_count'), message,
                                 NodeAt(root_node), level_path(level))
       IN  /\ stack' = updated.stack
           /\ root' = updated.root
           /\ outcome' = IF updated.raised = "" THEN NoOutcome ELSE Raised(updated.raised)
    /\ UNCHANGED paths

\* info(obj) of a dictionary of one key: update() stores it in the current
\* node
log_dict ==
    /\ call_count < MaxLogCalls
    /\ call_count' = call_count + 1
    /\ \E key \in Keys :
          LET updated == update_key(stack, root, key, Scalar, Unresolved, << >>)
          IN  /\ call' = [ op |-> "info", dict |-> (key :> Scalar), level |-> "INFO" ]
              /\ stack' = updated.stack
              /\ root' = updated.root
              /\ outcome' = IF updated.raised = "" THEN NoOutcome ELSE Raised(updated.raised)
    /\ UNCHANGED << paths, pc, config_vars, run_vars >>

info ==
    /\ log_string(Message, "INFO")
    /\ call' = [ op |-> "info", obj |-> Message, level |-> "INFO" ]
    /\ UNCHANGED << pc, config_vars, run_vars >>

debug ==
    /\ log_string(Message, "DEBUG")
    /\ call' = [ op |-> "debug", obj |-> Message, level |-> "DEBUG" ]
    /\ UNCHANGED << pc, config_vars, run_vars >>

warn ==
    /\ log_string(Message, "WARNING")
    /\ call' = [ op |-> "warn", obj |-> Message, level |-> "WARNING" ]
    /\ UNCHANGED << pc, config_vars, run_vars >>

error ==
    /\ log_string(Message, "ERROR")
    /\ call' = [ op |-> "error", obj |-> Message, level |-> "ERROR" ]
    /\ UNCHANGED << pc, config_vars, run_vars >>

pushd ==
    /\ Len(stack) < MaxDepth
    /\ \E key \in Keys :
          /\ paths' = Append(paths, << key >>)
          /\ call' = [ op |-> "pushd", keys |-> << key >> ]
    /\ stack' = Append(stack, Unresolved)
    /\ outcome' = NoOutcome
    /\ UNCHANGED << call_count, root, pc, config_vars, run_vars >>

popd ==
    /\ call' = [ op |-> "popd", depth |-> Len(stack) ]
    /\ IF Len(stack) = 1
       THEN log_string(InvalidPopd, "WARNING")
       ELSE /\ stack' = SubSeq(stack, 1, Len(stack) - 1)
            /\ paths' = SubSeq(paths, 1, Len(paths) - 1)
            /\ outcome' = NoOutcome
            /\ UNCHANGED << call_count, root >>
    /\ UNCHANGED << pc, config_vars, run_vars >>

\* a new logger next to an engine that is not run
InitLogger ==
    /\ Init
    /\ evaluator = "scenario"
    /\ population_size = 1
    /\ parent_size = 1
    /\ mutation_size = 0
    /\ crossover_size = 1
    /\ n_iter = 1
    /\ latency_constraint_upper = None

NextLogger == pushd \/ popd \/ info \/ debug \/ warn \/ error \/ log_dict

SpecLogger == InitLogger /\ [][NextLogger]_vars

(***************************************************************************)
(* Vocabulary of the properties.                                           *)
(***************************************************************************)
\* search() has been entered and the initial population is in place
Searching == pc \notin { "new", "rejected", "constructed", "sampling" }

\* the frontier held by the engine is the one of the last frontier update
\* and no point has been measured since
FrontierCurrent ==
    \/ pc \in { "selecting", "mutating", "crossing", "finishing", "done", "error" }
    \/ pc = "evaluating" /\ i > 0

\* the parents of the running generation have been drawn
ParentsDrawn == pc \in { "mutating", "crossing" }

\* the objective vector of a point: decoder params sign-flipped, latency,
\* memory, all to be minimized
Objectives(params, latency, memory) == << 0 - params, latency, memory >>

HistoryObjectives(j) == Objectives(all_params[j], all_latencies[j], all_memories[j])

FrontierObjectives(j) == Objectives(pareto.params[j], pareto.latencies[j], pareto.memories[j])

\* A dominates B: at least as good on every axis, strictly better on one
Better(A, B) ==
    /\ \A d \in 1..3 : A[d] <= B[d]
    /\ \E d \in 1..3 : A[d] < B[d]

\* every population built so far: the ones of the completed iterations and
\* the current one
PopulationsBuilt == [ j \in 1..Len(logs) |-> logs[j].population ] \o << population >>

\* how many members of the populations pops have the key
RECURSIVE Appearances(_, _)
Appearances(pops, key) ==
    IF pops = << >> THEN 0
    ELSE Cardinality({ j \in 1..Len(Head(pops)) : gene_to_key(Head(pops)[j]) = key })
         + Appearances(Tail(pops), key)

SeenGenes == UNION { Range(PopulationsBuilt[j]) : j \in 1..Len(PopulationsBuilt) }

(***************************************************************************)
(* C1: the initial population and every population built at the end of an  *)
(* iteration have exactly population_size = parent_size + mutation_size +  *)
(* crossover_size genes, and a configuration in which the equality does    *)
(* not hold is rejected by the constructor.                                *)
(***************************************************************************)
C1_PopulationSize ==
    /\ Searching =>
          /\ population_size = parent_size + mutation_size + crossover_size
          /\ \A j \in 1..Len(PopulationsBuilt) : Len(PopulationsBuilt[j]) = population_size
    /\ (pc # "new" /\ population_size # parent_size + mutation_size + crossover_size)
          => pc = "rejected"

\* a second generation starts on a population built from parents and children
C1_Witness ==
    /\ pc = "evaluating"
    /\ i = 1
    /\ Len(population) = population_size
    /\ mutation_size + crossover_size >= 2

(***************************************************************************)
(* C2: no child accepted by the mutation loop or by the crossover loop     *)
(* shares a GeneKey with a member of the initial population or of any      *)
(* population built in an earlier generation.                              *)
(***************************************************************************)
KeysSeen == { gene_to_key(g) : g \in SeenGenes }

C2_NoDuplicateChildren ==
    /\ pc = "mutating" =>
          \A c \in Range(mutated_population) : gene_to_key(c) \notin KeysSeen
    /\ pc = "crossing" =>
          \A c \in Range(mutated_population) \cup Range(crossovered_population) :
              gene_to_key(c) \notin KeysSeen

\* a child is accepted in the second generation, after two populations
C2_Witness ==
    /\ pc = "mutating"
    /\ i = 1
    /\ Len(mutated_population) = 1

(***************************************************************************)
(* C3: after every frontier update no point of the frontier dominates      *)
(* another point of the frontier.                                          *)
(***************************************************************************)
C3_FrontierNonDomination ==
    \A a, b \in 1..Len(pareto.population) :
        ~ Better(FrontierObjectives(a), FrontierObjectives(b))

\* a frontier of two different points next to a dominated point
C3_Witness ==
    /\ pc = "selecting"
    /\ Len(pareto.population) >= 2
    /\ Len(pareto.population) < Len(all_params)
    /\ \E a, b \in 1..Len(pareto.population) : FrontierObjectives(a) # FrontierObjectives(b)

(***************************************************************************)
(* C4: after every frontier update every history point that is not on the  *)
(* frontier is dominated by a frontier point, and two history points with  *)
(* the same objective vector are both on the frontier or both off it.      *)
(***************************************************************************)
OnFrontier(j) == j \in Range(p_inds)

C4_FrontierCompleteness ==
    FrontierCurrent =>
        /\ pareto = pareto_of(p_inds)
        /\ \A j \in 1..Len(all_params) :
              ~ OnFrontier(j) =>
                  \E f \in Range(p_inds) : Better(HistoryObjectives(f), HistoryObjectives(j))
        /\ \A a, b \in 1..Len(all_params) :
              HistoryObjectives(a) = HistoryObjectives(b) => (OnFrontier(a) <=> OnFrontier(b))

\* two tied points on the frontier and a dominated point off it
C4_Witness ==
    /\ pc = "selecting"
    /\ \E a, b \in Range(p_inds) : a # b /\ HistoryObjectives(a) = HistoryObjectives(b)
    /\ \E j \in 1..Len(all_params) : ~ OnFrontier(j)

(***************************************************************************)
(* C5: in every generation the frontier is the non-dominated set of all    *)
(* the points measured since the start of the run, whether or not they are *)
(* still in the current population.                                        *)
(***************************************************************************)
C5_FrontierOverFullHistory ==
    FrontierCurrent =>
        /\ Len(all_params) = n_evaluations
        /\ Range(p_inds) =
              { j \in 1..n_evaluations :
                  \A b \in 1..n_evaluations : ~ Better(HistoryObjectives(b), HistoryObjectives(j)) }
        /\ Range(pareto.population) = { all_population[j] : j \in Range(p_inds) }

\* in the second generation a point that left the population is on the
\* frontier and a point of the first generation is dominated by a new child
C5_Witness ==
    /\ pc = "selecting"
    /\ i = 1
    /\ \E j \in Range(p_inds) : all_population[j] \notin Range(population)
    /\ \E j \in 1..population_size, c \in (population_size + 1)..Len(all_params) :
          Better(HistoryObjectives(c), HistoryObjectives(j))

(***************************************************************************)
(* C6: with all six genes of the scenario in the history, the frontier     *)
(* contains gene (2,1) and does not contain gene (0,0).                    *)
(***************************************************************************)
C6_ScenarioFrontier ==
    pc = "selecting" =>
        /\ << 2, 1 >> \in Range(pareto.population)
        /\ << 0, 0 >> \notin Range(pareto.population)

C6_Witness ==
    /\ pc = "selecting"
    /\ evaluator = "scenario"
    /\ Range(all_population) = GeneSpace
    /\ Len(all_params) = Cardinality(GeneSpace)
    /\ \A j \in 1..Len(all_population) :
          /\ all_params[j] = 10 * all_population[j][1] + 5 * all_population[j][2]
          /\ all_latencies[j] = 10 - all_population[j][1]

(***************************************************************************)
(* C7: generation 0 measures the whole population, every later generation  *)
(* only its mutation_size + crossover_size new children; after g >= 1      *)
(* generations population_size + (g-1) * (mutation_size + crossover_size)  *)
(* measurements have been made.                                            *)
(***************************************************************************)
MeasuredAfter(g) == population_size + (g - 1) * (mutation_size + crossover_size)

C7_EvaluationCount ==
    /\ ~ Searching => n_evaluations = 0
    /\ pc = "evaluating" => n_evaluations = IF i = 0 THEN 0 ELSE MeasuredAfter(i)
    /\ pc \in { "finishing", "done" } => n_evaluations = MeasuredAfter(i)
    /\ (Searching /\ pc \notin { "evaluating", "finishing", "done" })
          => n_evaluations = MeasuredAfter(i + 1)

\* the second generation has been measured
C7_Witness ==
    /\ pc = "pareto"
    /\ i = 1
    /\ parent_size >= 2
    /\ n_evaluations = population_size + mutation_size + crossover_size

(***************************************************************************)
(* C8: in every generation exactly parent_size parents are drawn, each a   *)
(* point of the frontier of that generation with that point's values; the  *)
(* draw is with replacement.                                               *)
(***************************************************************************)
C8_ParentsFromFrontier ==
    ParentsDrawn =>
        /\ Len(parents_population) = parent_size
        /\ Len(parents_params) = parent_size
        /\ Len(parents_total_params) = parent_size
        /\ Len(parents_latencies) = parent_size
        /\ Len(parents_memories) = parent_size
        /\ \A m \in 1..Len(parents_population) :
              \E j \in 1..Len(pareto.population) :
                  /\ parents_population[m] = pareto.population[j]
                  /\ parents_params[m] = pareto.params[j]
                  /\ parents_total_params[m] = pareto.total_params[j]
                  /\ parents_latencies[m] = pareto.latencies[j]
                  /\ parents_memories[m] = pareto.memories[j]

\* a frontier of one point yields two parents, the same point twice
C8_Witness ==
    /\ pc = "mutating"
    /\ parent_size = 2
    /\ Len(pareto.population) = 1
    /\ Len(parents_population) = 2
    /\ parents_population[1] = parents_population[2]

(***************************************************************************)
(* C9: whenever the selection weights are computed in search() there is    *)
(* one weight per frontier point, every weight is strictly positive and    *)
(* the weights sum to 1.                                                   *)
(***************************************************************************)
C9_WeightValidity ==
    pc = "selecting" =>
        LET w == _calculate_weighted_count(pareto.population, counts)
        IN  /\ w.ok
            /\ Len(w.weights) = Len(pareto.population)
            /\ \A j \in 1..Len(w.weights) : RatLess(<< 0, 1 >>, w.weights[j])
            /\ RatSum(w.weights) = << 1, 1 >>

\* frontier points with different occurrence counts, hence different weights
C9_Witness ==
    /\ pc = "mutating"
    /\ Len(weights) >= 2
    /\ \E a, b \in 1..Len(weights) : RatLess(weights[a], weights[b])
    /\ RatSum(weights) = << 1, 1 >>

(***************************************************************************)
(* C10: the occurrence counter of each GeneKey equals the number of times  *)
(* the gene appeared, with multiplicity, in the initial population and in  *)
(* every population built so far, and no counter value ever decreases.     *)
(***************************************************************************)
CountsMatchAppearances ==
    IF Searching /\ pc # "assertion_error"
    THEN /\ DOMAIN counts = KeysSeen
         /\ \A key \in DOMAIN counts : counts[key] = Appearances(PopulationsBuilt, key)
    ELSE pc # "assertion_error" => DOMAIN counts = {}

CountsNeverDecrease ==
    \A key \in DOMAIN counts : key \in DOMAIN counts' /\ counts'[key] >= counts[key]

C10_OccurrenceCounter == [](CountsMatchAppearances) /\ [][CountsNeverDecrease]_vars

\* a gene carried over as a parent has been counted in two populations
C10_Witness ==
    /\ pc = "evaluating"
    /\ i = 1
    /\ \E g \in Range(population) :
          /\ counts[gene_to_key(g)] >= 3
          /\ Occurrences(population, g) < counts[gene_to_key(g)]

(***************************************************************************)
(* C11: the initial population returned by                                 *)
(* sample_random_population(population_size) consists of population_size   *)
(* genes that each pass the constraint check and are pairwise distinct.    *)
(***************************************************************************)
InitialPopulationInPlace == pc = "evaluating" /\ i = 0

C11_InitialPopulationValidDistinct ==
    InitialPopulationInPlace =>
        /\ Len(population) = population_size
        /\ \A j \in 1..Len(population) : _check_constraints(population[j])
        /\ \A a, b \in 1..Len(population) : population[a] = population[b] => a = b

(***************************************************************************)
(* C12: _check_constraints(gene) returns True exactly when the analytical  *)
(* parameter estimate lies in [param_constraint_lower,                     *)
(* param_constraint_upper] and either no latency bound is configured or    *)
(* the measured latency is at most the bound; the latency is measured only *)
(* for a gene whose estimate passed; a rejection is the value False, never *)
(* an exception.                                                           *)
(***************************************************************************)
EstimateInRange(gene) ==
    /\ param_constraint_lower <= total_params_analytical(gene)
    /\ total_params_analytical(gene) <= param_constraint_upper

LatencyInRange(gene) ==
    \/ latency_constraint_upper = None
    \/ measure_inference_latency(evaluator, gene) <= latency_constraint_upper

C12_ConstraintCheck ==
    call.op = "_check_constraints" =>
        /\ outcome.raised = ""
        /\ outcome.value \in BOOLEAN
        /\ outcome.value <=> (EstimateInRange(call.gene) /\ LatencyInRange(call.gene))
        /\ outcome.latency_measured => EstimateInRange(call.gene)

\* a gene whose estimate passes is rejected by its measured latency
C12_Witness ==
    /\ call.op = "_check_constraints"
    /\ outcome.latency_measured
    /\ outcome.value = FALSE

(***************************************************************************)
(* C13 (as stated): with mutation_prob = 1.0 the gene _mutation returns    *)
(* differs from the parent in every dimension that has more than one       *)
(* allowed value.                                                          *)
(***************************************************************************)
AlwaysMutating == call.op = "_mutation" /\ call.mutation_prob = 100

C13_DiffersEverywhere ==
    AlwaysMutating =>
        \A d \in 1..gene_size :
            Len(allowed_genes[d]) > 1 => outcome.value[d] # call.gene[d]

(***************************************************************************)
(* C13 (amended): with mutation_prob = 1.0 every dimension of the gene     *)
(* _mutation returns is the value drawn from that dimension's allowed      *)
(* values; the draw is over all of them, the parent's own value included,  *)
(* so the child may equal the parent in any dimension.                     *)
(***************************************************************************)
C13_EveryDimensionRedrawn ==
    AlwaysMutating =>
        \A d \in 1..gene_size :
            /\ outcome.value[d] = call.picks[d]
            /\ outcome.value[d] \in Range(allowed_genes[d])

\* every dimension redrawn, and every draw gave the parent's value back
C13_Witness ==
    /\ AlwaysMutating
    /\ \A d \in 1..gene_size : Len(allowed_genes[d]) > 1
    /\ outcome.value = call.gene

(***************************************************************************)
(* C14: with mutation_prob = 0.0 the gene _mutation returns equals the     *)
(* parent in every dimension, whatever the random outcomes.                *)
(***************************************************************************)
NeverMutating == call.op = "_mutation" /\ call.mutation_prob = 0

C14_NoMutation == NeverMutating => outcome.value = call.gene

\* the smallest uniform draw, and drawn values that all differ from the parent's
C14_Witness ==
    /\ NeverMutating
    /\ \A d \in 1..gene_size : call.draws[d] = 0 /\ call.picks[d] # call.gene[d]

(***************************************************************************)
(* C15: _crossover with crossover_prob = 1.0 returns the first parent,     *)
(* with crossover_prob = 0.0 the second parent; with any probability each  *)
(* dimension of the child is the first or the second parent's value.       *)
(***************************************************************************)
C15_Crossover ==
    call.op = "_crossover" =>
        /\ call.crossover_prob = 100 => outcome.value = call.genes[1]
        /\ call.crossover_prob = 0 => outcome.value = call.genes[2]
        /\ \A d \in 1..gene_size : outcome.value[d] \in { call.genes[1][d], call.genes[2][d] }

\* parents that differ in every dimension, one dimension taken from each
C15_Witness ==
    /\ call.op = "_crossover"
    /\ \A d \in 1..gene_size : call.genes[1][d] # call.genes[2][d]
    /\ outcome.value[1] = call.genes[1][1]
    /\ outcome.value[2] = call.genes[2][2]

(***************************************************************************)
(* C16: provided every sampling and retry loop terminates, search()        *)
(* performs exactly n_iter generations (each with its evaluation round,    *)
(* frontier update and parent selection) and then stops; it never stops    *)
(* earlier because the frontier has stopped changing.  The only other way  *)
(* out of the loop is an exception.                                        *)
(***************************************************************************)
Stopped == pc \in { "done", "rejected", "error", "assertion_error" }

MutationCanProgress ==
    \E gene \in Range(parents_population), draws \in DrawVectors, picks \in GeneSpace :
        accepted(_mutation(gene, mutation_prob, draws, picks))

CrossoverCanProgress ==
    \E a \in 1..Len(parents_population), b \in 1..Len(parents_population),
       draws \in DrawVectors :
        /\ a # b
        /\ accepted(_crossover(<< parents_population[a], parents_population[b] >>,
                               crossover_prob, draws))

\* a retry loop that no draw can end
RetryLoopStuck ==
    \/ pc = "mutating" /\ k < mutation_size /\ ~ MutationCanProgress
    \/ /\ pc = "crossing"
       /\ k < crossover_size
       /\ Len(parents_population) >= 2
       /\ ~ CrossoverCanProgress

\* the generations completed so far, each with its frontier and its parents
GenerationsDone == Len(logs)

GenerationCount ==
    /\ Searching => i <= n_iter /\ GenerationsDone <= n_iter
    /\ pc \in { "finishing", "done" } => i = n_iter /\ GenerationsDone = n_iter
    /\ pc \in { "evaluating", "pareto", "selecting", "mutating", "crossing" }
          => i < n_iter /\ GenerationsDone = i
    /\ \A g \in 1..GenerationsDone :
          /\ Len(logs[g].parents) = parent_size
          /\ Len(logs[g].pareto.population) >= 1

\* how far the run has got: the generation, the phase within it, the passes
\* of the loop under way
PhaseRank ==
    CASE pc = "new"         -> 0
      [] pc = "constructed" -> 1
      [] pc = "sampling"    -> 2
      [] pc = "evaluating"  -> 3
      [] pc = "pareto"      -> 4
      [] pc = "selecting"   -> 5
      [] pc = "mutating"    -> 6
      [] pc = "crossing"    -> 7
      [] pc = "finishing"   -> 8
      [] OTHER              -> 9

Progress ==
    (i * 10 + PhaseRank) * (MaxPopulation + 1)
        + (IF pc \in { "constructed", "sampling" } THEN Len(population) ELSE k)

\* every step that changes the state moves the run forward, and the run has
\* nowhere to go beyond the end of generation n_iter
EveryStepAdvances ==
    /\ Progress' > Progress
    /\ Progress' < (n_iter * 10 + 10) * (MaxPopulation + 1)

\* short of the end there is a next step, unless a retry loop cannot end
\* (the frontier update has no condition besides its phase)
\* select_parents either raises or has a choice of parents to make
SelectionCanProceed ==
    LET w == _calculate_weighted_count(pareto.population, counts)
    IN  ~ w.ok \/ choices(Len(pareto.population), parent_size, w.weights) # {}

NeverHalfway ==
    /\ pc \in { "new", "constructed", "sampling" }
          => ENABLED << __init__ \/ sample_random_population \/ search_begin >>_vars
    /\ pc = "evaluating" => ENABLED << evaluate >>_vars
    /\ pc = "selecting" => SelectionCanProceed
    /\ (pc = "mutating" /\ ~ RetryLoopStuck) => ENABLED << mutation_step \/ mutation_done >>_vars
    /\ (pc = "crossing" /\ ~ RetryLoopStuck) => ENABLED << crossover_step \/ end_iteration >>_vars
    /\ pc = "finishing" => ENABLED << finish >>_vars
    /\ pc \in { "new", "constructed", "sampling", "evaluating", "pareto", "selecting",
                "mutating", "crossing", "finishing" } \/ Stopped

C16_ExactlyNIterGenerations ==
    /\ [](GenerationCount)
    /\ [](NeverHalfway)
    /\ [][EveryStepAdvances]_vars

\* all n_iter generations were run although the second left the frontier
\* as the first had it
C16_Witness ==
    /\ pc = "done"
    /\ GenerationsDone = 2
    /\ logs[1].pareto = logs[2].pareto

(***************************************************************************)
(* C17: a failure of the evaluator, in the latency stage of a constraint   *)
(* check or in the objective evaluation of a generation, is not taken as a *)
(* rejection: it ends the run.  No later generation starts, no further     *)
(* record is written, and the frontier stays the one of the last completed *)
(* frontier update.                                                        *)
(***************************************************************************)
Failed == outcome.raised = "MeasurementError"

RunKept ==
    << pc, i, k, logs, files, pareto, p_inds, history_vars, counts, population,
       mutated_population, crossovered_population >>

\* the failing step leaves the frontier, the history and the records alone
FailureWritesNothing ==
    (~ Failed /\ Failed') =>
        UNCHANGED << i, logs, files, pareto, p_inds, history_vars, counts, population >>

\* after the failure nothing happens any more
FailureHalts == Failed => UNCHANGED RunKept

C17_FailureHaltsRun ==
    /\ [](Failed => pc = "failed")
    /\ [][FailureWritesNothing]_vars
    /\ [][FailureHalts]_vars

\* the evaluation of the second generation failed: the frontier is the one
\* the first generation's update left
C17_Witness ==
    /\ Failed
    /\ call.op = "_calculate_constraints"
    /\ i = 1
    /\ Len(logs) = 1
    /\ pareto = logs[1].pareto
    /\ Len(pareto.population) >= 1

(***************************************************************************)
(* C18: constructing the engine with population_size different from        *)
(* parent_size + mutation_size + crossover_size, or with a gene dimension  *)
(* that has no allowed value, fails in the constructor: no candidate is    *)
(* ever sampled or evaluated and search cannot start.                      *)
(***************************************************************************)
Constructing == call.op = "__init__"

BadConstruction ==
    /\ Constructing
    /\ \/ population_size # parent_size + mutation_size + crossover_size
       \/ \E d \in 1..gene_size : call.allowed_genes[d] = << >>

NothingSampledOrEvaluated ==
    /\ population = << >>
    /\ all_population = << >>
    /\ all_params = << >>
    /\ n_evaluations = 0
    /\ pareto = EmptyPareto
    /\ logs = << >>
    /\ files = << >>

C18_ConstructorAborts ==
    /\ [](BadConstruction =>
            /\ pc = "rejected"
            /\ outcome.raised \in { "AssertionError", "IndexError" }
            /\ NothingSampledOrEvaluated
            /\ ~ ENABLED (sample_random_population \/ search_begin \/ evaluate))
    /\ [][~ BadConstruction]_vars

\* sizes that agree, and a gene dimension without allowed values
C18_Witness ==
    /\ BadConstruction
    /\ population_size = parent_size + mutation_size + crossover_size
    /\ outcome.raised = "IndexError"

(***************************************************************************)
(* C19: semi_brute_force(n_samples, batch) with no saved population        *)
(* measures n_samples sampled valid genes in consecutive batches, appends  *)
(* each batch to the history and recomputes the frontier after it; when    *)
(* the call is over all n_samples genes are in the history and the         *)
(* frontier is their non-dominated set; no parent is selected, no gene     *)
(* mutated or crossed over, no occurrence counter updated.                 *)
(***************************************************************************)
BruteForceOver ==
    /\ call.op = "semi_brute_force"
    /\ pc \in { "done", "type_error", "assertion_error" }

C19_BruteForceCoversAllSamples ==
    BruteForceOver =>
        /\ all_population = population
        /\ Len(all_population) = call.n_samples
        /\ Len(all_params) = call.n_samples
        /\ Range(p_inds) =
              { j \in 1..Len(all_params) :
                  \A b \in 1..Len(all_params) :
                      ~ Better(HistoryObjectives(b), HistoryObjectives(j)) }
        /\ pareto = pareto_of(p_inds)
        /\ parents_population = << >>
        /\ mutated_population = << >>
        /\ crossovered_population = << >>
        /\ counts = << >>

(***************************************************************************)
(* C21: a run of search() that completes writes exactly one record per     *)
(* generation 0..n_iter-1, in increasing order of the index, holding that  *)
(* generation's evaluated population, its objective values, the parents    *)
(* selected in it and the frontier computed in it; after them it writes    *)
(* one consolidated record whose i-th entries are the record of            *)
(* generation i.                                                           *)
(***************************************************************************)
RecordFields ==
    { "population", "params", "total_params", "latencies", "memories", "parents", "pareto" }

\* the records written so far are those of generations 0, 1, ... in order
RecordsInOrder ==
    /\ pc # "done" => Len(files) = GenerationsDone
    /\ \A g \in 1..GenerationsDone :
          /\ files[g].name = "logs_itr"
          /\ files[g].index = g - 1
          /\ DOMAIN files[g].content = RecordFields

ConsolidatedRecord ==
    pc = "done" =>
        /\ Len(files) = n_iter + 1
        /\ files[n_iter + 1].name = "logs"
        /\ DOMAIN files[n_iter + 1].content = RecordFields
        /\ \A field \in RecordFields :
              /\ Len(files[n_iter + 1].content[field]) = n_iter
              /\ \A g \in 1..n_iter :
                    files[n_iter + 1].content[field][g] = files[g].content[field]

\* the record written at the end of a generation is that generation's
RecordOfGeneration ==
    (Len(files') = Len(files) + 1 /\ pc = "crossing") =>
        LET record == files'[Len(files')].content
        IN  /\ files'[Len(files')].index = i
            /\ record.population = population
            /\ Len(record.population) = population_size
            /\ \A j \in 1..population_size :
                  /\ record.params[j] = measure_decoder_params(evaluator, population[j])
                  /\ record.total_params[j] = measure_total_params(evaluator, population[j])
                  /\ record.latencies[j] = measure_inference_latency(evaluator, population[j])
                  /\ record.memories[j] = measure_peak_memory(evaluator, population[j])
            /\ record.parents = parents_population
            /\ record.pareto = pareto
            /\ pareto = pareto_of(pareto_inds(TRUE))

C21_Records ==
    /\ [](Searching => RecordsInOrder /\ ConsolidatedRecord)
    /\ [][RecordOfGeneration]_vars

\* a completed run of two generations whose records differ
C21_Witness ==
    /\ pc = "done"
    /\ n_iter = 2
    /\ Len(files) = 3
    /\ files[1].content # files[2].content
    /\ files[3].content.population[2] = files[2].content.population

(***************************************************************************)
(* C22: within one generation the children accepted so far, by the         *)
(* mutation loop and by the crossover loop, are pairwise distinct by       *)
(* GeneKey.                                                                *)
(***************************************************************************)
ChildrenAccepted == mutated_population \o crossovered_population

C22_ChildrenPairwiseDistinct ==
    pc \in { "mutating", "crossing" } =>
        \A a, b \in 1..Len(ChildrenAccepted) :
            gene_to_key(ChildrenAccepted[a]) = gene_to_key(ChildrenAccepted[b]) => a = b

(***************************************************************************)
(* C23: when fewer valid genes are still unseen than a variation loop has  *)
(* to produce (mutation_size for the mutation loop, crossover_size for the *)
(* crossover loop), that loop never ends and search() never reaches the    *)
(* next generation.                                                        *)
(***************************************************************************)
\* the valid genes _is_seen_before does not know
UnseenValidGenes == { gene \in GeneSpace : accepted(gene) }

StarvedMutationLoop ==
    pc = "mutating" /\ Cardinality(UnseenValidGenes) < mutation_size

StarvedCrossoverLoop ==
    pc = "crossing" /\ Cardinality(UnseenValidGenes) < crossover_size

StarvedLoopNeverEnds ==
    /\ StarvedMutationLoop => pc' = "mutating"
    /\ StarvedCrossoverLoop => pc' \notin { "evaluating", "finishing" }

C23_StarvedLoopNeverEnds == [][StarvedLoopNeverEnds]_vars

(***************************************************************************)
(* C24: every call of the crossover operator made by search() receives     *)
(* exactly two parent genes, and the two are different genes by value.     *)
(***************************************************************************)
CrossoverCallDue == pc = "crossing" /\ k < crossover_size /\ Len(parents_population) >= 2

C24_CrossoverParentsDistinct ==
    CrossoverCallDue =>
        \A genes \in sample_two(parents_population) :
            Len(genes) = 2 /\ genes[1] # genes[2]

(***************************************************************************)
(* C25: a history point that is not on the frontier computed in one        *)
(* generation is not on the frontier computed in any later generation.     *)
(* (Stated for consecutive frontier updates; it extends to all i < j step  *)
(* by step.)                                                               *)
(***************************************************************************)
\* the history points the previous frontier update has seen
MeasuredBeforeThisGeneration == 1..(Len(all_params) - (population_size - parent_size))

FrontierNeverReadmits ==
    (pc = "pareto" /\ i > 0) =>
        \A p \in MeasuredBeforeThisGeneration :
            p \notin Range(p_inds) => p \notin Range(p_inds')

C25_DominatedStaysOff == [][FrontierNeverReadmits]_vars

\* the second update: a point of the first generation was off the frontier
\* then and is off it now, and a new child is on it
C25_Witness ==
    /\ pc = "selecting"
    /\ i = 1
    /\ \E p \in 1..population_size :
          /\ all_population[p] \notin Range(logs[1].pareto.population)
          /\ p \notin Range(p_inds)
    /\ \E c \in (population_size + 1)..Len(all_params) : c \in Range(p_inds)

(***************************************************************************)
(* C26: in every generation i > 0 the population is the parents selected   *)
(* in generation i-1, then the mutated children, then the crossed-over     *)
(* children; its objective values are aligned with it position by          *)
(* position, the first parent_size of them being values the history holds  *)
(* for the selected parents.                                               *)
(***************************************************************************)
\* generation i > 0 is under way and the parents of generation i-1 are
\* still the ones held
LaterGeneration == i > 0 /\ pc \in { "evaluating", "pareto", "selecting" }

PopulationEvaluated == i > 0 /\ pc \in { "pareto", "selecting" }

InHistory(gene, params, total_params, latency, memory) ==
    \E h \in 1..Len(all_params) :
        /\ all_population[h] = gene
        /\ all_params[h] = params
        /\ all_total_params[h] = total_params
        /\ all_latencies[h] = latency
        /\ all_memories[h] = memory

C26_PopulationLayout ==
    /\ LaterGeneration =>
          /\ parents_population = logs[i].parents
          /\ Len(parents_population) = parent_size
          /\ Len(mutated_population) = mutation_size
          /\ Len(crossovered_population) = crossover_size
          /\ population = parents_population \o mutated_population \o crossovered_population
    /\ PopulationEvaluated =>
          /\ Len(population_params) = population_size
          /\ Len(population_total_params) = population_size
          /\ Len(population_latencies) = population_size
          /\ Len(population_memories) = population_size
          /\ \A j \in 1..population_size :
                /\ population_params[j] = measure_decoder_params(evaluator, population[j])
                /\ population_total_params[j] = measure_total_params(evaluator, population[j])
                /\ population_latencies[j] = measure_inference_latency(evaluator, population[j])
                /\ population_memories[j] = measure_peak_memory(evaluator, population[j])
          /\ \A j \in 1..parent_size :
                /\ population_params[j] = parents_params[j]
                /\ InHistory(population[j], population_params[j], population_total_params[j],
                             population_latencies[j], population_memories[j])

\* a second generation of two different parents and a child that differs
\* from both, evaluated
C26_Witness ==
    /\ pc = "pareto"
    /\ i = 1
    /\ parent_size = 2
    /\ population[1] # population[2]
    /\ population[3] \notin { population[1], population[2] }
    /\ population_latencies[1] # population_latencies[3]

(***************************************************************************)
(* C27: within one weight computation, a frontier point with a greater     *)
(* occurrence count than another has a strictly smaller weight, and equal  *)
(* counts give equal weights.                                              *)
(***************************************************************************)
FrontierCounts == pareto_counts(pareto.population, counts)

SelectionWeights == _calculate_weighted_count(pareto.population, counts).weights

C27_WeightsAntitone ==
    pc = "selecting" =>
        \A a, b \in 1..Len(pareto.population) :
            /\ FrontierCounts[a] > FrontierCounts[b]
                  => RatLess(SelectionWeights[a], SelectionWeights[b])
            /\ FrontierCounts[a] = FrontierCounts[b]
                  => SelectionWeights[a] = SelectionWeights[b]

\* a frontier with three points, two counts equal and one greater
C27_Witness ==
    /\ pc = "selecting"
    /\ \E a, b, c \in 1..Len(pareto.population) :
          /\ a # b
          /\ FrontierCounts[a] = FrontierCounts[b]
          /\ FrontierCounts[c] > FrontierCounts[a]

(***************************************************************************)
(* C28: when every frontier point has the same occurrence count,           *)
(* _calculate_weighted_count scales by counts_max, divides by no zero and  *)
(* returns the uniform distribution, 1/n for each of the n frontier        *)
(* points.                                                                 *)
(***************************************************************************)
AllCountsEqual ==
    /\ pareto.population # << >>
    /\ \A a, b \in 1..Len(pareto.population) : FrontierCounts[a] = FrontierCounts[b]

C28_EqualCountsUniform ==
    (pc = "selecting" /\ AllCountsEqual) =>
        /\ counts_range(FrontierCounts) = MaxOf(Range(FrontierCounts))
        /\ counts_range(FrontierCounts) > 0
        /\ _calculate_weighted_count(pareto.population, counts).ok
        /\ Len(SelectionWeights) = Len(pareto.population)
        /\ \A j \in 1..Len(pareto.population) :
              SelectionWeights[j] = << 1, Len(pareto.population) >>

\* two frontier points that were both in two populations
C28_Witness ==
    /\ pc = "selecting"
    /\ AllCountsEqual
    /\ Len(pareto.population) >= 2
    /\ FrontierCounts[1] >= 2

(***************************************************************************)
(* C29: the evaluation history is append-only during search(): the gene    *)
(* history and the four objective histories of a generation are prefixes   *)
(* of those of every later generation, and no stored gene or value is      *)
(* modified after it was appended.  (Stated for every step; it extends to  *)
(* all generations i < j step by step.)                                    *)
(***************************************************************************)
IsPrefix(s, t) == Len(s) <= Len(t) /\ SubSeq(t, 1, Len(s)) = s

HistoryOnlyGrows ==
    /\ IsPrefix(all_population, all_population')
    /\ IsPrefix(all_params, all_params')
    /\ IsPrefix(all_total_params, all_total_params')
    /\ IsPrefix(all_latencies, all_latencies')
    /\ IsPrefix(all_memories, all_memories')

C29_HistoryAppendOnly == [][HistoryOnlyGrows]_vars

\* the second generation's children and their values were appended
C29_Witness ==
    /\ pc = "finishing"
    /\ i = 2
    /\ Len(all_params) > population_size
    /\ Len(all_population) > Len(all_params)
    /\ SubSeq(all_population, 1, population_size) = logs[1].population

(***************************************************************************)
(* C30: every gene of every population and of the history has exactly      *)
(* gene_size dimensions and its value in each dimension k is a member of   *)
(* allowed_genes[k]; sampling, mutation and crossover preserve this.       *)
(***************************************************************************)
IsGene(gene) ==
    /\ DOMAIN gene = 1..gene_size
    /\ \A d \in 1..gene_size : \E v \in 1..Len(allowed_genes[d]) : gene[d] = allowed_genes[d][v]

GenesHeld ==
    Range(population) \cup Range(all_population) \cup Range(parents_population)
        \cup Range(mutated_population) \cup Range(crossovered_population)
        \cup Range(pareto.population)
        \cup UNION { Range(logs[g].population) : g \in 1..Len(logs) }

C30_GenesWellFormed == \A gene \in GenesHeld : IsGene(gene)

\* a sampled population, and a mutated child in the history that differs
\* from each of its possible parents in some dimension
C30_Witness ==
    /\ pc = "pareto"
    /\ i = 1
    /\ mutation_size >= 1
    /\ \A parent \in Range(parents_population) : mutated_population[1] # parent
    /\ mutated_population[1] \in Range(all_population)

(***************************************************************************)
(* C31: every gene of every population of search(), and hence every gene   *)
(* of the history and of the frontier, passed the constraint check when it *)
(* was accepted: its analytical parameter estimate lies in                 *)
(* [param_constraint_lower, param_constraint_upper].                       *)
(***************************************************************************)
C31_GenesWithinParameterBounds == \A gene \in GenesHeld : EstimateInRange(gene)

\* a finished run whose history holds sampled genes and accepted children,
\* over a gene space that has genes outside the bounds
C31_Witness ==
    /\ pc = "done"
    /\ Len(all_population) > population_size
    /\ pareto.population # << >>
    /\ Range(mutated_population) \cup Range(crossovered_population) # {}
    /\ \E gene \in GeneSpace : ~ EstimateInRange(gene)

(***************************************************************************)
(* C32: profiling the extremal genes at construction (the gene made of the *)
(* last allowed value of every dimension and the gene made of the first)   *)
(* does not affect the search: it leaves the evaluation history, the       *)
(* frontier and the occurrence counter empty, and no later step of         *)
(* search() reads the profiled bounds: whatever the profiled bounds are,   *)
(* every quantity a step of the search computes is the same.               *)
(***************************************************************************)
ExtremalGenesProfiled ==
    /\ profile.max = _profile_model(<< 2, 1 >>)
    /\ profile.min = _profile_model(<< 0, 0 >>)

\* the step of the constructor that ends with the engine constructed
Constructed == pc = "new" /\ pc' = "constructed"

ProfiledOnly ==
    pc = "constructed" =>
        /\ all_population = << >>
        /\ all_params = << >>
        /\ all_total_params = << >>
        /\ all_latencies = << >>
        /\ all_memories = << >>
        /\ pareto = EmptyPareto
        /\ counts = << >>

\* what the steps of search() compute from the state they are taken in: the
\* outcome of the constraint and novelty tests, the measurements, the point
\* matrix and the counts the frontier and the weights are functions of, the
\* record, the next population and the loop test
SearchUnaffected ==
    /\ \A gene \in GeneSpace :
          /\ _check_constraints(gene)' = _check_constraints(gene)
          /\ accepted(gene)' = accepted(gene)
    /\ _calculate_constraints(population)' = _calculate_constraints(population)
    /\ unseen_from' = unseen_from
    /\ pareto_points(all_params, all_latencies, all_memories)'
           = pareto_points(all_params, all_latencies, all_memories)
    /\ pareto_asserts_hold' = pareto_asserts_hold
    /\ pareto_counts(pareto.population, counts)' = pareto_counts(pareto.population, counts)
    /\ \A j \in 1..Len(pareto.population) :
          /\ pareto_of(<< j >>)' = pareto_of(<< j >>)
          /\ gene_to_key(pareto.population[j])' = gene_to_key(pareto.population[j])
    /\ log_record' = log_record
    /\ next_population' = next_population
    /\ more_iterations(i + 1)' = more_iterations(i + 1)

C32_ProfilingDoesNotAffectSearch ==
    /\ [][Constructed => ExtremalGenesProfiled']_vars
    /\ [](ProfiledOnly)
    /\ [][profile_again => SearchUnaffected]_vars

\* the bounds were profiled anew in the middle of a generation whose
\* children loop is under way
C32_Witness ==
    /\ pc = "mutating"
    /\ i = 1
    /\ profile # _profile
    /\ profile \in ProfileReadings

(***************************************************************************)
(* C33: no assertion of the search loop can fail in a run started on a     *)
(* fresh engine: in every generation the four population objective vectors *)
(* have exactly population_size entries, and at every frontier update the  *)
(* gene history and the four objective histories all have the same length  *)
(* as the point matrix.                                                    *)
(***************************************************************************)
\* the population of the running generation has been measured
GenerationMeasured == pc \in { "pareto", "selecting", "mutating", "crossing" }

PopulationVectorsFull ==
    /\ Len(population_params) = population_size
    /\ Len(population_total_params) = population_size
    /\ Len(population_latencies) = population_size
    /\ Len(population_memories) = population_size

HistoriesMatchPoints ==
    LET points == pareto_points(all_params, all_latencies, all_memories)
    IN  /\ Len(points) = Len(all_population)
        /\ Len(points) = Len(all_params)
        /\ Len(points) = Len(all_total_params)
        /\ Len(points) = Len(all_latencies)
        /\ Len(points) = Len(all_memories)

C33_NoAssertionFails ==
    /\ pc # "assertion_error"
    /\ GenerationMeasured => PopulationVectorsFull
    /\ pc = "pareto" => HistoriesMatchPoints

\* the frontier update of a later generation is due: the history holds the
\* initial population and the children of the generation before
C33_Witness ==
    /\ pc = "pareto"
    /\ i >= 1
    /\ Len(all_population) > population_size
    /\ Len(population_params) = population_size

(***************************************************************************)
(* C34: when search() returns after n_iter >= 1 generations, every gene in *)
(* the gene history has objective values recorded: all_population has the  *)
(* same length as all_params, all_total_params, all_latencies and          *)
(* all_memories.                                                           *)
(***************************************************************************)
SearchReturned == pc = "done" /\ n_iter >= 1

C34_HistoryFullyMeasured ==
    SearchReturned =>
        /\ Len(all_population) = Len(all_params)
        /\ Len(all_population) = Len(all_total_params)
        /\ Len(all_population) = Len(all_latencies)
        /\ Len(all_population) = Len(all_memories)

(***************************************************************************)
(* C35: in search(), whenever selection weights are computed, every gene   *)
(* on the frontier has an occurrence count of at least 1, so the scaling   *)
(* denominator counts_range is at least 1 and the weight computation       *)
(* cannot divide by zero.                                                  *)
(***************************************************************************)
C35_FrontierCountsPositive ==
    pc = "selecting" =>
        /\ FrontierCounts # << >>
        /\ \A j \in 1..Len(FrontierCounts) : FrontierCounts[j] >= 1
        /\ counts_range(FrontierCounts) >= 1

\* weights are due for a frontier whose genes were counted a different
\* number of times: a parent carried over and a child
C35_Witness ==
    /\ pc = "selecting"
    /\ i >= 1
    /\ \E a, b \in 1..Len(FrontierCounts) : FrontierCounts[a] < FrontierCounts[b]

(***************************************************************************)
(* C36 (as stated): if all parent_size selected parents have the same gene *)
(* value (for instance when the frontier holds a single point) and         *)
(* crossover_size >= 1, every crossover child equals that parent and is    *)
(* rejected as seen before, so the crossover loop never terminates and the *)
(* generation never completes.                                             *)
(***************************************************************************)
AllParentsEqual ==
    /\ Len(parents_population) = parent_size
    /\ \A a, b \in 1..Len(parents_population) : parents_population[a] = parents_population[b]

\* the crossover loop is under way with parents of one gene value
EqualParentsCrossover == pc = "crossing" /\ crossover_size >= 1 /\ AllParentsEqual

\* no child is accepted and the loop is not left, by its end or by an
\* exception
CrossoverLoopGoesOn ==
    /\ crossovered_population = << >>
    /\ k = 0
    /\ pc' = "crossing"
    /\ UNCHANGED << crossovered_population, k >>

FewParents ==
    /\ parent_size <= 1
    /\ crossover_size >= 1
    /\ population_size = parent_size + mutation_size + crossover_size

AcceptedAtConstruction == pc = "new" => pc' = "constructed"

\* the run is stopped by an exception
Fails == pc # "error" /\ pc' = "error"

\* an exception only stops the run in the given loop of the first
\* generation, and that loop always ends with it
FailsOnlyIn(loop) ==
    /\ i = 0
    /\ pc \notin { "rejected", "assertion_error", "finishing", "done" }
    /\ Fails => pc = loop
    /\ pc = loop => pc' = "error"

C37_FailsWhenSamplingTwoParents ==
    [][FewParents => AcceptedAtConstruction /\ FailsOnlyIn("crossing")]_vars

(***************************************************************************)
(* C37 (amended): the same, but without any parent and with                *)
(* mutation_size >= 1 the run fails earlier in the variation step, in the  *)
(* mutation loop, when one parent cannot be chosen from the empty parent   *)
(* list.  In both cases the run only fails if it gets to the loop.         *)
(***************************************************************************)
FailingLoop == IF parent_size = 0 /\ mutation_size >= 1 THEN "mutating" ELSE "crossing"

C37_FailsInVariationStep ==
    [][FewParents => AcceptedAtConstruction /\ FailsOnlyIn(FailingLoop)]_vars

\* one parent, a mutated child accepted, and the crossover loop stopped by
\* the exception
C37_Witness ==
    /\ FewParents
    /\ pc = "error"
    /\ parent_size = 1
    /\ Len(parents_population) = 1
    /\ Len(mutated_population) = mutation_size
    /\ mutation_size >= 1
    /\ crossovered_population = << >>

(***************************************************************************)
(* C38: frontier membership computed by _update_pareto_front depends only  *)
(* on decoder params (more is better), latency and memory (less is         *)
(* better): using max(all_params) - params gives the same frontier index   *)
(* set as using -params, so the growth of max(all_params) between          *)
(* generations never changes dominance between existing points, and        *)
(* changing total_params values never changes the frontier.                *)
(***************************************************************************)
\* the rows of the history with the decoder params negated: a function of
\* the three objectives alone
NegatedPoints == [ j \in 1..Len(all_params) |-> HistoryObjectives(j) ]

\* the point matrix as it was when the history had its first n rows, with
\* the maximum of that time
PointsUpTo(n) ==
    pareto_points(SubSeq(all_params, 1, n), SubSeq(all_latencies, 1, n),
                  SubSeq(all_memories, 1, n))

DominanceKept ==
    \A n \in 1..Len(all_params) : \A a, b \in 1..n :
        /\ dominates(PointsUpTo(n)[a], PointsUpTo(n)[b], TRUE)
               <=> dominates(NegatedPoints[a], NegatedPoints[b], TRUE)
        /\ dominates(PointsUpTo(n)[a], PointsUpTo(n)[b], TRUE)
               <=> Better(HistoryObjectives(a), HistoryObjectives(b))

C38_FrontierOfThreeObjectives ==
    FrontierCurrent =>
        /\ p_inds = find_pareto_points(NegatedPoints, TRUE)
        /\ DominanceKept

\* the largest decoder params of the history grew after generation 0, and
\* a point is off the frontier although it has fewer total params than the
\* frontier point that dominates it
C38_Witness ==
    /\ pc = "selecting"
    /\ i >= 1
    /\ MaxOf(Range(SubSeq(all_params, 1, population_size))) < MaxOf(Range(all_params))
    /\ \E a \in Range(p_inds), b \in 1..Len(all_params) :
          /\ b \notin Range(p_inds)
          /\ Better(HistoryObjectives(a), HistoryObjectives(b))
          /\ all_total_params[b] < all_total_params[a]

(***************************************************************************)
(* C39: after any sequence of pushd, popd and log calls on an              *)
(* OrderedDictLogger, paths and stack have the same length and that length *)
(* is at least 1; popd called at the root leaves both unchanged and        *)
(* records a warning instead of popping.                                   *)
(***************************************************************************)
StackDiscipline == Len(paths) = Len(stack) /\ Len(stack) >= 1

\* the call just made is popd, made at the root
PoppedAtRoot == call'.op = "popd" /\ call'.depth = 1

WarningRecorded ==
    /\ outcome'.raised = ""
    /\ << "warnings", ToString(call_count') >> \in DOMAIN root'
    /\ root'[<< "warnings", ToString(call_count') >>] = InvalidPopd

C39_StackDiscipline ==
    /\ [](StackDiscipline)
    /\ [][PoppedAtRoot => UNCHANGED << paths, stack >> /\ WarningRecorded]_vars

(***************************************************************************)
(* C40: a string message logged through info, debug, warn or error is      *)
(* stored under the root node, in its messages, debugs, warnings or errors *)
(* sub-node respectively, keyed by the call count, whatever the current    *)
(* pushd path is and whatever the root node already contains; it is never  *)
(* stored under the current node of a pushed path.                         *)
(***************************************************************************)
\* the call just made logged a string
StringLogged ==
    /\ call'.op \in { "info", "debug", "warn", "error" }
    /\ "obj" \in DOMAIN call'
    /\ call'.obj = Message

StoredUnderRoot ==
    LET place == level_path(call'.level) \o << ToString(call_count') >>
    IN  /\ outcome'.raised = ""
        /\ place \in DOMAIN root'
        /\ root'[place] = Message

\* whatever the call added to the tree is in the sub-node of its level
NothingStoredElsewhere ==
    \A q \in DOMAIN root' \ DOMAIN root : IsUnder(q, level_path(call'.level))

C40_MessagesUnderRoot ==
    [][StringLogged => StoredUnderRoot /\ NothingStoredElsewhere]_vars

====
